---------------------------- MODULE Spec2Model ----------------------------
(***************************************************************************)
(* Model of the statement-import core of gpay-wrapped (finn_lens):         *)
(*   - the ledger and its deduplicating commit (models/transactions.rs),   *)
(*     with the unique indexes the migrations create,                      *)
(*   - bank detection (parsers/detector.rs, parsers/banks/base.rs),        *)
(*   - the parser registry (parsers/registry.rs),                          *)
(*   - the cell parsers (parsers/formats/excel_base.rs) and the row        *)
(*     extraction of the two readers (parsers/banks/*/excel_parser.rs).    *)
(* Strings are TLA+ strings; characters are one-character strings.         *)
(* Option<T> is modelled as a sequence: <<>> is None, <<v>> is Some(v).    *)
(***************************************************************************)
EXTENDS Integers, Sequences, FiniteSets, TLC

VARIABLES
    ledger,     \* the transactions table, in insertion order
    nextId,     \* the id the next inserted row gets (ids are never reused)
    imp,        \* the requests in flight, each at one of its awaits
    banks,      \* BankDetector.banks: registration order
    bankMap,    \* ParserRegistry.banks: code -> institution
    file,       \* the last file handed to auto_parse
    detection,  \* what BankDetector::detect returned for it
    result,     \* what auto_parse returned for it
    call        \* the last call of a reader or a cell parser, with what it returned

vars == <<ledger, nextId, imp, banks, bankMap, file, detection, result, call>>

ledgerVars == <<ledger, nextId>>
parseVars == <<banks, bankMap, file, detection, result>>

None == <<>>
Some(v) == <<v>>

----------------------------------------------------------------------------
(* Bounds of the model                                                     *)

MaxRows == 2            \* rows ever inserted into the ledger
MaxBatch == 2           \* candidates in one bulk commit of the first request
MaxConcurrentBatch == 1 \* candidates in one bulk commit of the second request
MaxSheetRows == 2       \* rows of a sheet handed to parse_rows, drawn freely
MaxHeaders == 2         \* headers of a row handed to detect_columns, drawn freely

----------------------------------------------------------------------------
(* str::to_lowercase, str::trim, str::contains                             *)

UpperLetters == "ABCDEFGHIJKLMNOPQRSTUVWXYZ"
LowerLetters == "abcdefghijklmnopqrstuvwxyz"

CharAt(s, i) == SubSeq(s, i, i)

UpperSet == {CharAt(UpperLetters, i) : i \in 1..Len(UpperLetters)}

LowerOfUpper ==
    [c \in UpperSet |->
        CharAt(LowerLetters, CHOOSE i \in 1..Len(UpperLetters) : CharAt(UpperLetters, i) = c)] @@ <<>>

\* char::to_lowercase on the letters of the model
ToLowerChar(c) == IF c \in UpperSet THEN LowerOfUpper[c] ELSE c

RECURSIVE LowerRec(_)
LowerRec(s) ==
    IF Len(s) = 0 THEN ""
    ELSE ToLowerChar(CharAt(s, 1)) \o LowerRec(SubSeq(s, 2, Len(s)))

\* char::is_whitespace on the characters of the model
IsWhitespace(c) == c = " "

RECURSIVE TrimStart(_)
TrimStart(s) ==
    IF Len(s) > 0 /\ IsWhitespace(CharAt(s, 1)) THEN TrimStart(SubSeq(s, 2, Len(s))) ELSE s

RECURSIVE TrimEnd(_)
TrimEnd(s) ==
    IF Len(s) > 0 /\ IsWhitespace(CharAt(s, Len(s))) THEN TrimEnd(SubSeq(s, 1, Len(s) - 1)) ELSE s

\* The texts of the ledger candidates, with their trimmed and lower-cased
\* forms: to_lowercase and trim of these are computed once and looked up.
LedgerTexts == {"Rent", " rent", "Fuel", "upi1", " UPI1"}
KnownTexts ==
    LET trimmed == LedgerTexts \cup {TrimEnd(TrimStart(s)) : s \in LedgerTexts}
    IN  trimmed \cup {LowerRec(s) : s \in trimmed}
LowerMemo == [s \in KnownTexts |-> LowerRec(s)] @@ <<>>
TrimMemo == [s \in KnownTexts |-> TrimEnd(TrimStart(s))] @@ <<>>

\* str::to_lowercase
ToLowercase(s) == IF s \in KnownTexts THEN LowerMemo[s] ELSE LowerRec(s)

\* str::trim
Trim(s) == IF s \in KnownTexts THEN TrimMemo[s] ELSE TrimEnd(TrimStart(s))

\* the positions at which sub occurs in s
Occurrences(s, sub) ==
    {i \in 1..(Len(s) - Len(sub) + 1) : SubSeq(s, i, i + Len(sub) - 1) = sub}

Contains(s, sub) == Occurrences(s, sub) # {}

----------------------------------------------------------------------------
(* rust_decimal::Decimal as mantissa m and scale s: the value m / 10^s     *)

Dec(m, s) == [m |-> m, s |-> s]

DecimalAbs(d) == [d EXCEPT !.m = IF d.m < 0 THEN -d.m ELSE d.m]

\* Decimal::normalize: strip trailing zeros; zero becomes 0 with scale 0
RECURSIVE DecimalNormalize(_)
DecimalNormalize(d) ==
    IF d.m = 0 THEN Dec(0, 0)
    ELSE IF d.s > 0 /\ d.m % 10 = 0 THEN DecimalNormalize(Dec(d.m \div 10, d.s - 1))
    ELSE d

----------------------------------------------------------------------------
(* The candidates offered to the ledger operations                         *)

Users == {1, 2}
\* an account belongs to one user (bank_accounts.user_id)
AccountOf(u) == u
\* NaiveDate 2025-01-16 as year, month, day
StatementDate == <<2025, 1, 16>>

Candidate(u, description, amount, reference) ==
    [account_id |-> AccountOf(u), transaction_date |-> StatementDate, amount |-> amount,
     description |-> description, transaction_type |-> "debit", reference_number |-> reference]

\* CreateTransactionParams (the fields the ledger logic reads) offered for
\* user u.  For user 1: one transaction without reference written in two ways
\* (letter case, whitespace, sign and trailing zero differ), the same
\* transaction with a bank reference, another transaction whose reference
\* differs from it in letter case and whitespace only, and a transaction
\* without reference that differs from the first in its description only, so
\* that an update of its description makes it the first.  User 2 offers a
\* transaction of its own that carries the same bank reference.
ParamsOf(u) ==
    IF u = 1
    THEN {Candidate(1, "Rent", Dec(100, 0), None),
          Candidate(1, " rent", Dec(-1000, 1), None),
          Candidate(1, "Rent", Dec(100, 0), Some(" UPI1")),
          Candidate(1, "Fuel", Dec(250, 0), Some("upi1")),
          Candidate(1, "Fuel", Dec(100, 0), None)}
    ELSE {Candidate(2, "Rent", Dec(100, 0), Some(" UPI1"))}

\* the accounts a confirm_import of user u names: req.account_id is not
\* checked against the user, user 2 names its own account or user 1's
ImportAccounts(u) == IF u = 1 THEN {1} ELSE Users

\* the candidate on the account the request names
WithAccount(p, account_id) == [p EXCEPT !.account_id = account_id]

\* the candidates a bulk commit of user u can carry
ImportParams(u) == {WithAccount(p, a) : p \in ParamsOf(u), a \in ImportAccounts(u)}

Params == UNION {ImportParams(u) : u \in Users}

\* the sequences of `shorter` and those of length n - 1 among them with one more element
Extended(shorter, S, n) ==
    shorter \cup {Append(q, x) : q \in {t \in shorter : Len(t) = n - 1}, x \in S}

RECURSIVE SeqsUpTo(_, _)
SeqsUpTo(S, n) == IF n = 0 THEN {<<>>} ELSE Extended(SeqsUpTo(S, n - 1), S, n)

----------------------------------------------------------------------------
(* models/transactions.rs                                                  *)

\* generate_hash hashing the description and the amount as given
GenerateHashUnnormalized(user_id, account_id, transaction_date, amount, description, transaction_type, reference_number) ==
    <<user_id, account_id, transaction_date, amount, description, transaction_type,
      IF reference_number # None THEN Some(ToLowercase(Trim(reference_number[1]))) ELSE None>>

\* generate_hash leaving the reference number out
GenerateHashWithoutReference(user_id, account_id, transaction_date, amount, description, transaction_type, reference_number) ==
    <<user_id, account_id, transaction_date,
      DecimalNormalize(DecimalAbs(amount)),
      ToLowercase(Trim(description)),
      transaction_type,
      None>>

\* Model::generate_hash: the normalized fields fed to the hasher, in order.
\* The 64-bit digest is a function of exactly this stream, so the stream
\* stands for the digest (equal streams <=> equal digests, up to collision).
GenerateHash(user_id, account_id, transaction_date, amount, description, transaction_type, reference_number) ==
    <<user_id, account_id, transaction_date,
      DecimalNormalize(DecimalAbs(amount)),
      ToLowercase(Trim(description)),
      transaction_type,
      IF reference_number # None THEN Some(ToLowercase(Trim(reference_number[1]))) ELSE None>>

\* generate_hash of every candidate, computed once
HashTable ==
    [x \in Users \X Params |->
        GenerateHash(x[1], x[2].account_id, x[2].transaction_date, x[2].amount,
                     x[2].description, x[2].transaction_type, x[2].reference_number)] @@ <<>>

HashOf(user_id, p) == HashTable[<<user_id, p>>]

\* Model::find_duplicate_by_reference: the rows the query selects
FindDuplicateByReference(db, reference_number) ==
    IF Trim(reference_number) = "" THEN {}
    ELSE LET normalized_ref == ToLowercase(Trim(reference_number))
         IN  {i \in 1..Len(db) : db[i].reference_number = Some(normalized_ref)}

\* the hash lookup of create_with_deduplication / find_duplicate_by_hash
FindDuplicateByHash(db, user_id, hash) ==
    {i \in 1..Len(db) : db[i].user_id = user_id /\ db[i].transaction_hash = Some(hash)}

\* the table without idx_transactions_hash_unique
UniqueViolationReferenceOnly(db, row) ==
    \E i \in 1..Len(db) :
        row.reference_number # None /\ db[i].reference_number = row.reference_number

\* idx_transactions_hash_unique and idx_transactions_reference_unique:
\* a unique index rejects a second equal non-NULL value
UniqueViolation(db, row) ==
    \E i \in 1..Len(db) :
        \/ row.transaction_hash # None /\ db[i].transaction_hash = row.transaction_hash
        \/ row.reference_number # None /\ db[i].reference_number = row.reference_number

\* the row an ActiveModel insert stores under the id the table gives it
NewRow(id, user_id, p, hash) ==
    [id |-> id, user_id |-> user_id, account_id |-> p.account_id,
     transaction_date |-> p.transaction_date,
     amount |-> p.amount, description |-> p.description, transaction_type |-> p.transaction_type,
     reference_number |-> p.reference_number, transaction_hash |-> hash]

\* active.insert(db): Ok appends the row and uses up the id, Err leaves the
\* table alone
Insert(db, next, row) ==
    IF UniqueViolation(db, row) THEN [ok |-> FALSE, db |-> db, next |-> next]
    ELSE [ok |-> TRUE, db |-> Append(db, row), next |-> next + 1]

\* the outcome of create_with_deduplication after the insert
Inserted(ins) ==
    [outcome |-> IF ins.ok THEN "created" ELSE "error", db |-> ins.db, next |-> ins.next]

\* create_with_deduplication from the hash lookup on
CreateUnlessHashFound(db, next, user_id, p, hash) ==
    IF FindDuplicateByHash(db, user_id, hash) # {}
    THEN [outcome |-> "duplicate", db |-> db, next |-> next]
    ELSE Inserted(Insert(db, next, NewRow(next, user_id, p, Some(hash))))

\* Model::create_with_deduplication with no other request between its
\* awaits: Ok(Some) "created", Ok(None) "duplicate", Err "error"
CreateWithDeduplication(db, next, user_id, p) ==
    IF /\ p.reference_number # None
       /\ Trim(p.reference_number[1]) # ""
       /\ FindDuplicateByReference(db, p.reference_number[1]) # {}
    THEN [outcome |-> "duplicate", db |-> db, next |-> next]
    ELSE CreateUnlessHashFound(db, next, user_id, p, HashOf(user_id, p))

RECURSIVE BulkImportFrom(_, _, _, _, _, _, _)

\* the loop of bulk_import_with_deduplication after candidate k gave r:
\* an Err ends the call (the ? operator) without counters, keeping earlier
\* inserts
BulkImportAfter(r, user_id, list, k, created, skipped) ==
    IF r.outcome = "error"
    THEN [db |-> r.db, next |-> r.next, err |-> TRUE, created_count |-> 0, skipped_count |-> 0]
    ELSE BulkImportFrom(r.db, r.next, user_id, list, k + 1,
                        IF r.outcome = "created" THEN created + 1 ELSE created,
                        IF r.outcome = "duplicate" THEN skipped + 1 ELSE skipped)

\* Model::bulk_import_with_deduplication: the loop from candidate k on
BulkImportFrom(db, next, user_id, list, k, created, skipped) ==
    IF k > Len(list)
    THEN [db |-> db, next |-> next, err |-> FALSE,
          created_count |-> created, skipped_count |-> skipped]
    ELSE BulkImportAfter(CreateWithDeduplication(db, next, user_id, list[k]),
                         user_id, list, k, created, skipped)

\* Model::bulk_import_with_deduplication with no other request between its
\* awaits
BulkImportWithDeduplication(db, next, user_id, list) ==
    BulkImportFrom(db, next, user_id, list, 1, 0, 0)

\* Model::create: the manual create stores no transaction_hash
Create(db, next, user_id, p) == Insert(db, next, NewRow(next, user_id, p, None))

\* the places of the rows with the id: one at most
FindById(db, id) == {i \in 1..Len(db) : db[i].id = id}

\* the table without the row with the id
WithoutId(db, id) == SelectSeq(db, LAMBDA r : r.id # id)

\* the ActiveModel update_transaction builds from the row found: the fields
\* it sets, and no other, are written
UpdatedRow(txn, params) ==
    IF params.description # None THEN [txn EXCEPT !.description = params.description[1]] ELSE txn

\* active.update(db): the UPDATE of the row with the id
UpdateById(db, id, params) ==
    [i \in 1..Len(db) |-> IF db[i].id = id THEN UpdatedRow(db[i], params) ELSE db[i]]

----------------------------------------------------------------------------
(* The requests.  Every await of a handler is a step of its own: no        *)
(* database transaction is held, so the steps of another request may run   *)
(* between any two of them.                                                *)

\* the requests in flight
Importers == {1, 2}

\* pc: the await the request is at, "ok" / "err" once it has its response;
\* list, k: the candidates of a bulk commit and the one it is working on;
\* created_count, skipped_count: its counters, n the length of its list;
\* ids: the ids of the rows it has inserted; id, params: the row an update
\* or delete names and the fields the update sets
Idle == [pc |-> "idle", op |-> "none", user_id |-> 0, list |-> <<>>, k |-> 0, n |-> 0,
         created_count |-> 0, skipped_count |-> 0, ids |-> {},
         id |-> 0, params |-> [description |-> None]]

\* the request has its response: Ok with the counters, or Err without them
Finished(st, pc, created, skipped) ==
    [Idle EXCEPT !.pc = pc, !.op = st.op, !.user_id = st.user_id, !.n = st.n, !.ids = st.ids,
                 !.created_count = created, !.skipped_count = skipped]

\* the candidate request p is working on
Current(p) == imp[p].list[imp[p].k]

\* the loop of bulk_import_with_deduplication counts the outcome of the
\* candidate and moves to the next one
Counted(st, outcome) ==
    [st EXCEPT !.k = st.k + 1,
               !.pc = "reference",
               !.created_count = IF outcome = "created" THEN @ + 1 ELSE @,
               !.skipped_count = IF outcome = "duplicate" THEN @ + 1 ELSE @]

\* past the last candidate the loop ends: Ok((created_count, skipped_count))
Returned(st) == IF st.k > st.n THEN Finished(st, "ok", st.created_count, st.skipped_count) ELSE st

\* the request after a candidate was created or found to be a duplicate
Advance(st, outcome) == Returned(Counted(st, outcome))

\* the request ends with an error: the response carries no counters
Failed(st) == Finished(st, "err", 0, 0)

\* the candidates of one confirm_import: the parsed transactions, all on the
\* account the request names
OnAccount(list, account_id) == [k \in 1..Len(list) |-> WithAccount(list[k], account_id)]

\* the longest list request p commits
BatchOf(p) == IF p = 1 THEN MaxBatch ELSE MaxConcurrentBatch

\* confirm_import enters bulk_import_with_deduplication
StartImport(p) ==
    /\ imp[p].pc = "idle"
    /\ \E u \in Users : \E a \in ImportAccounts(u) :
        \E list \in SeqsUpTo(ParamsOf(u), BatchOf(p)) :
            /\ Len(list) > 0
            /\ imp' = [imp EXCEPT ![p] = [Idle EXCEPT !.pc = "reference", !.op = "bulk",
                                                      !.user_id = u,
                                                      !.list = OnAccount(list, a), !.k = 1,
                                                      !.n = Len(list)]]
    /\ UNCHANGED <<ledger, nextId, parseVars, call>>

\* create_with_deduplication, the reference lookup
CheckReference(p) ==
    /\ imp[p].pc = "reference"
    /\ IF /\ Current(p).reference_number # None
          /\ Trim(Current(p).reference_number[1]) # ""
          /\ FindDuplicateByReference(ledger, Current(p).reference_number[1]) # {}
       THEN imp' = [imp EXCEPT ![p] = Advance(@, "duplicate")]
       ELSE imp' = [imp EXCEPT ![p].pc = "hash"]
    /\ UNCHANGED <<ledger, nextId, parseVars, call>>

\* create_with_deduplication, the hash lookup
CheckHash(p) ==
    /\ imp[p].pc = "hash"
    /\ IF FindDuplicateByHash(ledger, imp[p].user_id, HashOf(imp[p].user_id, Current(p))) # {}
       THEN imp' = [imp EXCEPT ![p] = Advance(@, "duplicate")]
       ELSE imp' = [imp EXCEPT ![p].pc = "insert"]
    /\ UNCHANGED <<ledger, nextId, parseVars, call>>

\* the table, the id counter and the request after the insert gave ins
InsertedBy(p, ins) ==
    /\ ins.ok => nextId <= MaxRows
    /\ ledger' = ins.db
    /\ nextId' = ins.next
    /\ imp' = [imp EXCEPT ![p] = IF ins.ok
                                 THEN Advance([@ EXCEPT !.ids = @ \cup {nextId}], "created")
                                 ELSE Failed(@)]

\* create_with_deduplication, the insert; its Err ends the bulk commit
InsertCandidate(p) ==
    /\ imp[p].pc = "insert"
    /\ InsertedBy(p, Insert(ledger, nextId,
                            NewRow(nextId, imp[p].user_id, Current(p),
                                   Some(HashOf(imp[p].user_id, Current(p))))))
    /\ UNCHANGED <<parseVars, call>>

\* the transactions entered by hand: user 1 enters the one its statements
\* carry without reference
CreateParams(u) == IF u = 1 THEN {Candidate(1, "Rent", Dec(100, 0), None)} ELSE {}

\* the table and the id counter a manual create leaves
Created(ins) ==
    /\ ins.ok => nextId <= MaxRows
    /\ ledger' = ins.db
    /\ nextId' = ins.next

\* create_transaction -> Model::create: the account is one of the user's, the
\* one insert is the only statement on the table
CreateTransaction ==
    \E u \in Users : \E p \in CreateParams(u) :
        /\ Created(Create(ledger, nextId, u, p))
        /\ UNCHANGED <<imp, parseVars, call>>

\* the descriptions an update sets: that of some rows already, a change of
\* case and blanks for others, and for the rows that read "Fuel" another
\* text, which the candidates of ParamsOf carry too
UpdateTexts == {"Rent"}

\* UpdateTransactionParams, of which the ledger rows carry the description
UpdateTransactionParams == {[description |-> Some(d)] : d \in UpdateTexts}

\* find_by_pid / find_by_id and the ownership check: the request goes on to
\* pc when the row is there and is the user's, else it ends with an error
FoundOwn(st, pc) ==
    IF \E i \in FindById(ledger, st.id) : ledger[i].user_id = st.user_id
    THEN [st EXCEPT !.pc = pc]
    ELSE Failed(st)

\* update_transaction (controller): find_by_pid and the ownership check
StartUpdate(p) ==
    /\ imp[p].pc = "idle"
    /\ \E u \in Users : \E id \in 1..MaxRows : \E params \in UpdateTransactionParams :
        imp' = [imp EXCEPT ![p] = FoundOwn([Idle EXCEPT !.op = "update", !.user_id = u,
                                                          !.id = id, !.params = params],
                                            "find")]
    /\ UNCHANGED <<ledger, nextId, parseVars, call>>

\* Model::update_transaction: find_by_id and the ownership check
FindForUpdate(p) ==
    /\ imp[p].pc = "find"
    /\ imp' = [imp EXCEPT ![p] = FoundOwn(@, "update")]
    /\ UNCHANGED <<ledger, nextId, parseVars, call>>

\* Model::update_transaction: active.update(db); Err when the row is gone
UpdateTransaction(p) ==
    /\ imp[p].pc = "update"
    /\ IF FindById(ledger, imp[p].id) = {}
       THEN /\ imp' = [imp EXCEPT ![p] = Failed(@)]
            /\ UNCHANGED ledger
       ELSE /\ imp' = [imp EXCEPT ![p] = Finished(@, "ok", 0, 0)]
            /\ ledger' = UpdateById(ledger, imp[p].id, imp[p].params)
    /\ UNCHANGED <<nextId, parseVars, call>>

\* delete_transaction: find_by_pid and the ownership check
StartDelete(p) ==
    /\ imp[p].pc = "idle"
    /\ \E u \in Users : \E id \in 1..MaxRows :
        imp' = [imp EXCEPT ![p] = FoundOwn([Idle EXCEPT !.op = "delete", !.user_id = u,
                                                          !.id = id],
                                            "delete")]
    /\ UNCHANGED <<ledger, nextId, parseVars, call>>

\* delete_transaction: delete_by_id(txn.id).exec; the rows affected are not
\* looked at
DeleteTransaction(p) ==
    /\ imp[p].pc = "delete"
    /\ ledger' = WithoutId(ledger, imp[p].id)
    /\ imp' = [imp EXCEPT ![p] = Finished(@, "ok", 0, 0)]
    /\ UNCHANGED <<nextId, parseVars, call>>

\* the response is sent: the request is over
Respond(p) ==
    /\ imp[p].pc \in {"ok", "err"}
    /\ imp' = [imp EXCEPT ![p] = Idle]
    /\ UNCHANGED <<ledger, nextId, parseVars, call>>

----------------------------------------------------------------------------
(* parsers/banks/base.rs: formats, detection patterns, confidence          *)

\* FileFormat::from_extension
FormatOfLowercase(e) ==
    IF e = "xlsx" \/ e = "xls" THEN Some("excel")
    ELSE IF e = "ofx" THEN Some("ofx")
    ELSE IF e = "qfx" THEN Some("qfx")
    ELSE None

FromExtension(ext) == FormatOfLowercase(ToLowercase(ext))

Least(S) == CHOOSE i \in S : \A j \in S : i <= j
Greatest(S) == CHOOSE i \in S : \A j \in S : j <= i

RECURSIVE RegexFind(_, _)

\* the first part occurs at occ in t, and the other parts match after its
\* first occurrence
RegexMatchesFrom(rest, part, t, occ) ==
    /\ occ # {}
    /\ RegexFind(rest, SubSeq(t, Least(occ) + Len(part), Len(t)))

RegexMatchesPart(rest, part, t) == RegexMatchesFrom(rest, part, t, Occurrences(t, part))

\* Regex::is_match for the patterns of the form p1.*p2.*...: the parts
\* occur in this order (the texts hold no line break)
RegexFind(parts, text) ==
    IF Len(parts) = 0 THEN TRUE ELSE RegexMatchesPart(Tail(parts), parts[1], text)

\* Regex::is_match for the patterns of the form (?i)p1.*p2.*...: the parts
\* occur in this order, letter case ignored
RegexIsMatch(parts, text) ==
    RegexFind([k \in 1..Len(parts) |-> ToLowercase(parts[k])], ToLowercase(text))

ContentContains(keywords) == [kind |-> "ContentContains", keywords |-> keywords]
\* DetectionPattern::ContentRegex of a pattern p1.*p2.*..., with the flag
\* (?i) before it when insensitive; compiles tells whether Regex::new
\* accepts the pattern, parts being the whole pattern when it does not
ContentRegex(compiles, insensitive, parts) ==
    [kind |-> "ContentRegex", compiles |-> compiles, insensitive |-> insensitive,
     parts |-> parts]
FilenamePattern(parts) == [kind |-> "FilenamePattern", parts |-> parts]

\* DetectionPattern::matches_content
PatternMatchesContent(pattern, content) ==
    IF pattern.kind = "ContentContains"
    THEN \E k \in 1..Len(pattern.keywords) :
             Contains(ToLowercase(content), ToLowercase(pattern.keywords[k]))
    ELSE IF pattern.kind = "ContentRegex"
    THEN /\ pattern.compiles
         /\ IF pattern.insensitive THEN RegexIsMatch(pattern.parts, content)
            ELSE RegexFind(pattern.parts, content)
    ELSE FALSE

\* DetectionPattern::matches_filename
PatternMatchesFilename(pattern, filename) ==
    IF pattern.kind = "FilenamePattern" THEN RegexIsMatch(pattern.parts, filename) ELSE FALSE

\* BankInfo::matches_content
MatchesContent(info, content) ==
    \E k \in 1..Len(info.detection_patterns) :
        PatternMatchesContent(info.detection_patterns[k], content)

\* BankInfo::matches_filename
MatchesFilename(info, filename) ==
    \/ \E k \in 1..Len(info.aliases) :
           \/ Contains(ToLowercase(filename), ToLowercase(info.aliases[k]))
           \/ ToLowercase(ToLowercase(filename)) = ToLowercase(info.aliases[k])
    \/ \E k \in 1..Len(info.detection_patterns) :
           PatternMatchesFilename(info.detection_patterns[k], filename)

\* confidence is kept in tenths: 0.4 is 4, 0.6 is 6, 1.0 is 10
FilenameConfidence == 4
ContentConfidence == 6
FullConfidence == 10
Min(a, b) == IF a <= b THEN a ELSE b

\* a detect_confidence that scores a content match 1.0 and does not cap the sum
DetectConfidenceUncapped(bank, file_path, content) ==
    (IF MatchesFilename(bank.info, file_path) THEN FilenameConfidence ELSE 0)
        + (IF MatchesContent(bank.info, content) THEN FilenameConfidence + ContentConfidence ELSE 0)

\* Bank::detect_confidence
DetectConfidence(bank, file_path, content) ==
    Min((IF MatchesFilename(bank.info, file_path) THEN FilenameConfidence ELSE 0)
            + (IF MatchesContent(bank.info, content) THEN ContentConfidence ELSE 0),
        FullConfidence)

\* FormatParser::name
ParserName(parser) == parser.bank_code \o "-" \o parser.format

\* Bank::get_parser
GetParser(bank, format) ==
    IF \A k \in 1..Len(bank.parsers) : bank.parsers[k].format # format THEN None
    ELSE Some(bank.parsers[Least({k \in 1..Len(bank.parsers) : bank.parsers[k].format = format})])

----------------------------------------------------------------------------
(* parsers/formats/excel_base.rs: the cells of a sheet and their texts     *)

\* calamine::Data, the kinds of cell the readers tell apart.  A Float cell
\* holds the decimal its f64 stands for exactly (the model uses values such
\* as 50.5 that an f64 holds without rounding).  A whole number too large
\* for the integers of the checker is written with a negative scale:
\* Dec(2, -11) is 200000000000.
EmptyCell == [kind |-> "Empty"]
StringCell(s) == [kind |-> "String", s |-> s]
IntCell(i) == [kind |-> "Int", i |-> i]
FloatCell(d) == [kind |-> "Float", f |-> d]
BoolCell(b) == [kind |-> "Bool", b |-> b]
\* Data::DurationIso, the ISO 8601 text of a duration
DurationIsoCell(s) == [kind |-> "DurationIso", s |-> s]
\* Data::Error, e the Debug name of the CellErrorType (Div0, NA, Name, Null,
\* Num, Ref, Value, GettingData)
ErrorCell(e) == [kind |-> "Error", e |-> e]
\* Data::DateTime of the 1900 date system: the serial number, as a decimal
DateTimeCell(d) == [kind |-> "DateTime", f |-> d]
DateTimeIsoCell(s) == [kind |-> "DateTimeIso", s |-> s]

Digits == "0123456789"
DigitSet == {CharAt(Digits, i) : i \in 1..Len(Digits)}
DigitValue(c) == Least(Occurrences(Digits, c)) - 1

\* i64::to_string of a natural number
RECURSIVE NatToString(_)
NatToString(n) ==
    IF n < Len(Digits) THEN CharAt(Digits, n + 1)
    ELSE NatToString(n \div Len(Digits)) \o CharAt(Digits, (n % Len(Digits)) + 1)

\* i64::to_string
IntToString(i) == IF i < 0 THEN "-" \o NatToString(-i) ELSE NatToString(i)

RECURSIVE Pow10(_)
Pow10(n) == IF n = 0 THEN 1 ELSE 10 * Pow10(n - 1)

\* the digits of n as a text of the given width, padded with zeros
RECURSIVE PaddedDigits(_, _)
PaddedDigits(n, width) ==
    IF width = 0 THEN "" ELSE PaddedDigits(n \div 10, width - 1) \o CharAt(Digits, (n % 10) + 1)

\* the text of a decimal without trailing zeros: 50.5, 100, -7.25
PlainText(d) ==
    IF d.s = 0 THEN IntToString(d.m)
    ELSE IF d.s < 0 THEN IntToString(d.m) \o PaddedDigits(0, -d.s)
    ELSE (IF d.m < 0 THEN "-" ELSE "")
            \o NatToString(DecimalAbs(d).m \div Pow10(d.s)) \o "."
            \o PaddedDigits(DecimalAbs(d).m % Pow10(d.s), d.s)

\* f64::to_string of the value of a Float cell
FloatToString(f) == PlainText(DecimalNormalize(f))

\* ExcelReader::cell_to_string
CellToString(cell) ==
    IF cell.kind = "Empty" THEN ""
    ELSE IF cell.kind = "String" THEN cell.s
    ELSE IF cell.kind = "Float" THEN FloatToString(cell.f)
    ELSE IF cell.kind = "Int" THEN IntToString(cell.i)
    ELSE IF cell.kind = "DateTime" THEN FloatToString(cell.f)
    ELSE IF cell.kind = "DateTimeIso" THEN cell.s
    ELSE IF cell.kind = "DurationIso" THEN cell.s
    ELSE IF cell.kind = "Error" THEN "Error: " \o cell.e
    ELSE IF cell.b THEN "true" ELSE "false"

\* ExcelReader::is_cell_empty
IsCellEmpty(cell) ==
    IF cell.kind = "Empty" THEN TRUE
    ELSE IF cell.kind = "String" THEN Trim(cell.s) = ""
    ELSE FALSE

\* ExcelReader::is_row_empty
IsRowEmpty(row) == \A k \in 1..Len(row) : IsCellEmpty(row[k])

----------------------------------------------------------------------------
(* ExcelAmountParser                                                       *)

StartsWith(s, prefix) == Len(s) >= Len(prefix) /\ SubSeq(s, 1, Len(prefix)) = prefix
EndsWith(s, suffix) ==
    Len(s) >= Len(suffix) /\ SubSeq(s, Len(s) - Len(suffix) + 1, Len(s)) = suffix

\* str::replace(pattern, ""): every occurrence taken out, left to right
RECURSIVE Without(_, _)
Without(s, pattern) ==
    IF Len(s) < Len(pattern) \/ Len(s) = 0 THEN s
    ELSE IF StartsWith(s, pattern) THEN Without(SubSeq(s, Len(pattern) + 1, Len(s)), pattern)
    ELSE CharAt(s, 1) \o Without(SubSeq(s, 2, Len(s)), pattern)

\* the currency symbols clean removes, in this order
CurrencySymbols == <<"$", "Rs.", "Rs", "INR", "USD", "EUR", "GBP">>

RECURSIVE WithoutAll(_, _)
WithoutAll(s, patterns) ==
    IF Len(patterns) = 0 THEN s ELSE WithoutAll(Without(s, patterns[1]), Tail(patterns))

\* "(100.00)" becomes "-100.00"
Unparenthesized(s) ==
    IF StartsWith(s, "(") /\ EndsWith(s, ")") THEN "-" \o SubSeq(s, 2, Len(s) - 1) ELSE s

\* a suffix handling that drops Dr and DR as it drops CR
WithoutSuffixUnsigned(s) ==
    IF EndsWith(s, "CR") THEN Without(s, "CR")
    ELSE IF EndsWith(s, "Dr") \/ EndsWith(s, "DR") THEN Without(Without(s, "Dr"), "DR")
    ELSE s

\* a trailing CR is dropped, a trailing Dr or DR negates
WithoutSuffix(s) ==
    IF EndsWith(s, "CR") THEN Without(s, "CR")
    ELSE IF EndsWith(s, "Dr") \/ EndsWith(s, "DR") THEN "-" \o Without(Without(s, "Dr"), "DR")
    ELSE s

NoneIfEmpty(s) == IF s = "" THEN None ELSE Some(s)

\* clean after the trimmed text is known
CleanTrimmed(t) ==
    IF t = "" \/ t = "-" \/ t = "0" THEN None
    ELSE NoneIfEmpty(WithoutSuffix(Unparenthesized(
             Without(Without(WithoutAll(t, CurrencySymbols), ","), " "))))

\* ExcelAmountParser::clean
Clean(text) == CleanTrimmed(Trim(text))

\* the value of a text of digits; -1 when it is empty or holds another character
RECURSIVE DigitsValue(_, _)
DigitsValue(s, acc) ==
    IF Len(s) = 0 THEN acc
    ELSE IF CharAt(s, 1) \notin DigitSet THEN -1
    ELSE DigitsValue(SubSeq(s, 2, Len(s)), 10 * acc + DigitValue(CharAt(s, 1)))

\* the parser of rust_decimal reading the text after the sign, byte by byte:
\* m the digits read, scale those read after the '.', point whether the '.'
\* was read, has whether a digit was read.  A second '.', a '_' before the
\* first digit and any other byte are errors, and so is a text without digit.
RECURSIVE DecimalDigits(_, _, _, _, _)
DecimalDigits(s, m, scale, point, has) ==
    IF Len(s) = 0 THEN (IF has THEN Some(Dec(m, scale)) ELSE None)
    ELSE IF CharAt(s, 1) \in DigitSet
    THEN DecimalDigits(SubSeq(s, 2, Len(s)), 10 * m + DigitValue(CharAt(s, 1)),
                       IF point THEN scale + 1 ELSE scale, point, TRUE)
    ELSE IF CharAt(s, 1) = "." /\ ~point THEN DecimalDigits(SubSeq(s, 2, Len(s)), m, scale, TRUE, has)
    ELSE IF CharAt(s, 1) = "_" /\ has THEN DecimalDigits(SubSeq(s, 2, Len(s)), m, scale, point, has)
    ELSE None

\* an unsigned decimal text: digits with at most one '.', before, between or
\* after them
UnsignedDecimal(s) == DecimalDigits(s, 0, 0, FALSE, FALSE)

Negated(d) == IF d = None THEN None ELSE Some(Dec(-d[1].m, d[1].s))

\* Decimal::from_str(..).ok(): an optional sign, then the unsigned decimal
DecimalFromStr(s) ==
    IF StartsWith(s, "-") THEN Negated(UnsignedDecimal(SubSeq(s, 2, Len(s))))
    ELSE IF StartsWith(s, "+") THEN UnsignedDecimal(SubSeq(s, 2, Len(s)))
    ELSE UnsignedDecimal(s)

\* parse_string once clean has answered
ParseCleaned(cleaned) == IF cleaned = None THEN None ELSE DecimalFromStr(cleaned[1])

\* ExcelAmountParser::parse_string
AmountParseString(text) == ParseCleaned(Clean(text))

\* whether a decimal written with a negative scale has more digits than a
\* Decimal holds, or as many and lies above Decimal::MAX
\* (79228162514264337593543950335, 29 digits)
AboveDecimalMax(f) ==
    \/ Len(NatToString(DecimalAbs(f).m)) - f.s > 29
    \/ /\ Len(NatToString(DecimalAbs(f).m)) - f.s = 29
       /\ Len(NatToString(DecimalAbs(f).m)) <= 9
       /\ DecimalAbs(f).m * Pow10(9 - Len(NatToString(DecimalAbs(f).m))) > 792281625

\* Decimal::from_f64_retain of the value of a Float cell: none when the
\* value does not fit a Decimal
FromF64Retain(f) ==
    IF f.s < 0 /\ f.m # 0 /\ AboveDecimalMax(f) THEN None ELSE Some(DecimalNormalize(f))

\* ExcelAmountParser::parse_cell
AmountParseCell(cell) ==
    IF cell.kind = "Float" THEN FromF64Retain(cell.f)
    ELSE IF cell.kind = "Int" THEN Some(Dec(cell.i, 0))
    ELSE IF cell.kind = "String" THEN AmountParseString(cell.s)
    ELSE None

----------------------------------------------------------------------------
(* ExcelColumnMapping and ExcelColumnDetector                              *)

\* ExcelColumnMapping::default
DefaultMapping ==
    [date |-> None, posted_date |-> None, description |-> None, amount |-> None,
     debit |-> None, credit |-> None, balance |-> None, reference |-> None,
     transaction_type |-> None]

\* ExcelColumnMapping::is_valid
IsValid(mapping) ==
    /\ mapping.date # None
    /\ (mapping.amount # None \/ mapping.debit # None \/ mapping.credit # None)

\* a chain of lower.contains(..) || lower.contains(..)
ContainsAny(lower, keywords) == \E k \in keywords : Contains(lower, k)

\* the body of the loop of detect_columns for the header at index i
DetectColumn(mapping, i, lower) ==
    IF Contains(lower, "date") /\ mapping.date = None
    THEN IF ContainsAny(lower, {"post", "value", "txn"})
         THEN IF mapping.posted_date = None
              THEN [mapping EXCEPT !.posted_date = Some(i)]
              ELSE mapping
         ELSE [mapping EXCEPT !.date = Some(i)]
    ELSE IF /\ ContainsAny(lower, {"description", "particulars", "narration", "details", "remark"})
            /\ mapping.description = None
    THEN [mapping EXCEPT !.description = Some(i)]
    ELSE IF Contains(lower, "amount") /\ mapping.amount = None
    THEN [mapping EXCEPT !.amount = Some(i)]
    ELSE IF /\ (ContainsAny(lower, {"debit", "withdrawal", "withdraw"}) \/ lower = "dr")
            /\ mapping.debit = None
    THEN [mapping EXCEPT !.debit = Some(i)]
    ELSE IF (ContainsAny(lower, {"credit", "deposit"}) \/ lower = "cr") /\ mapping.credit = None
    THEN [mapping EXCEPT !.credit = Some(i)]
    ELSE IF Contains(lower, "balance") /\ mapping.balance = None
    THEN [mapping EXCEPT !.balance = Some(i)]
    ELSE IF /\ ContainsAny(lower, {"ref", "cheque", "check", "transaction id", "txn id"})
            /\ mapping.reference = None
    THEN [mapping EXCEPT !.reference = Some(i)]
    ELSE IF ContainsAny(lower, {"type", "mode", "category"}) /\ mapping.transaction_type = None
    THEN [mapping EXCEPT !.transaction_type = Some(i)]
    ELSE mapping

\* the loop of detect_columns from the header at index i on
RECURSIVE DetectColumnsFrom(_, _, _)
DetectColumnsFrom(headers, i, mapping) ==
    IF i >= Len(headers) THEN mapping
    ELSE DetectColumnsFrom(headers, i + 1, DetectColumn(mapping, i, ToLowercase(headers[i + 1])))

\* ExcelColumnDetector::detect_columns
DetectColumns(headers) == DetectColumnsFrom(headers, 0, DefaultMapping)

----------------------------------------------------------------------------
(* chrono::NaiveDate as <<year, month, day>>, and ExcelDateParser          *)

IsLeapYear(y) == (y % 4 = 0 /\ y % 100 # 0) \/ y % 400 = 0
DaysInYear(y) == IF IsLeapYear(y) THEN 366 ELSE 365
DaysInMonth(y, m) ==
    IF m = 2 THEN (IF IsLeapYear(y) THEN 29 ELSE 28)
    ELSE IF m \in {4, 6, 9, 11} THEN 30
    ELSE 31

\* NaiveDate::from_ymd_opt(..).is_some(): a NaiveDate holds the years
\* -262143..262142
IsValidDate(date) ==
    /\ date[1] >= -262143
    /\ date[1] <= 262142
    /\ date[2] \in 1..12
    /\ date[3] >= 1
    /\ date[3] <= DaysInMonth(date[1], date[2])

\* the day of the year of a date, 1 for the first of January
RECURSIVE Ordinal(_, _, _)
Ordinal(y, m, d) == IF m = 1 THEN d ELSE DaysInMonth(y, m - 1) + Ordinal(y, m - 1, d)

\* the date of a day of the year, from month m on
RECURSIVE MonthDay(_, _, _)
MonthDay(y, m, ordinal) ==
    IF ordinal > DaysInMonth(y, m) THEN MonthDay(y, m + 1, ordinal - DaysInMonth(y, m))
    ELSE <<y, m, ordinal>>

\* the date of the day `ordinal` counted from the first of January of year y
RECURSIVE FromOrdinal(_, _)
FromOrdinal(y, ordinal) ==
    IF ordinal > DaysInYear(y) THEN FromOrdinal(y + 1, ordinal - DaysInYear(y))
    ELSE MonthDay(y, 1, ordinal)

\* NaiveDate::checked_add_signed(Duration::days(n)) for n >= 0
AddDays(date, n) == FromOrdinal(date[1], Ordinal(date[1], date[2], date[3]) + n)

\* NaiveDate::from_ymd_opt(1899, 12, 30)
ExcelEpoch == <<1899, 12, 30>>

\* `adjusted as i64` of a serial held as a decimal: the whole part
Truncated(f) == IF f.s >= 0 THEN f.m \div Pow10(f.s) ELSE f.m * Pow10(-f.s)

\* a panic that unwinds out of the call, told apart from every value the
\* call returns
Panic(message) == [ok |-> FALSE, kind |-> "Panic", message |-> message]

\* the panic of chrono::Duration::days on a number of days whose
\* milliseconds do not fit an i64 (more than 106751991167 days)
DaysOutOfBounds == Panic("TimeDelta::days out of bounds")

\* whether m * 10^k is more than hi * 1000 + lo, for m >= 0, k >= 0 and
\* lo < 1000: the comparison of a number of days with a limit, taken digit
\* by digit so that no number larger than m or hi is formed
RECURSIVE ExceedsThousands(_, _, _, _)
ExceedsThousands(m, k, hi, lo) ==
    IF k = 0 THEN m \div 1000 > hi \/ (m \div 1000 = hi /\ m % 1000 > lo)
    ELSE IF hi = 0 /\ lo = 0 THEN m > 0
    ELSE ExceedsThousands(m, k - 1, hi \div 10, (hi % 10) * 100 + lo \div 10)

\* whether the whole part of a decimal that is not negative is more than
\* hi * 1000 + lo
WholeExceeds(f, hi, lo) ==
    IF f.s >= 0 THEN ExceedsThousands(Truncated(f), 0, hi, lo)
    ELSE ExceedsThousands(f.m, -f.s, hi, lo)

\* a serial date number with the leap day 1900-02-29 Excel counts
LeapDaySerial == 60

\* ExcelDateParser::from_excel_serial.  A serial below 1 gives None.
\* Duration::days(adjusted as i64) panics when the days are more than
\* 106751991167, which a serial of 106751991169 or more makes them;
\* checked_add_signed gives None past the last day of year 262142,
\* 95051805 days after the epoch.
FromExcelSerial(serial) ==
    IF serial.m < Pow10(IF serial.s > 0 THEN serial.s ELSE 0) THEN None
    ELSE IF WholeExceeds(serial, 106751991, 168) THEN DaysOutOfBounds
    ELSE IF WholeExceeds(serial, 95051, 806) THEN None
    ELSE IF Truncated(serial) >= LeapDaySerial
    THEN Some(AddDays(ExcelEpoch, Truncated(serial) - 1))
    ELSE Some(AddDays(ExcelEpoch, Truncated(serial)))

\* the formats parse_string tries, in order; an item is a field (d, m, Y, y,
\* b, B) or a literal
DateFormats ==
    << <<"d", "-", "m", "-", "Y">>, <<"d", "/", "m", "/", "Y">>,
       <<"d", "-", "m", "-", "y">>, <<"d", "/", "m", "/", "y">>,
       <<"d", " ", "b", " ", "Y">>, <<"d", "-", "b", "-", "Y">>,
       <<"d", " ", "B", " ", "Y">>, <<"Y", "-", "m", "-", "d">>,
       <<"Y", "/", "m", "/", "d">>, <<"m", "-", "d", "-", "Y">>,
       <<"m", "/", "d", "/", "Y">>, <<"b", " ", "d", " ", "Y">>,
       <<"B", " ", "d", " ", "Y">>, <<"d", "-", "b", "-", "y">> >>

ShortMonths == <<"jan", "feb", "mar", "apr", "may", "jun", "jul", "aug", "sep", "oct", "nov", "dec">>
LongMonthRests == <<"uary", "ruary", "ch", "il", "", "e", "y", "ust", "tember", "ober", "ember", "ember">>

\* the most digits a numeric field takes
FieldWidth(item) == IF item = "Y" THEN 4 ELSE 2

\* the number of leading digits of s, at most max
RECURSIVE LeadingDigits(_, _)
LeadingDigits(s, max) ==
    IF max = 0 \/ Len(s) = 0 THEN 0
    ELSE IF CharAt(s, 1) \notin DigitSet THEN 0
    ELSE 1 + LeadingDigits(SubSeq(s, 2, Len(s)), max - 1)

\* a two-digit year: 70..99 are 19xx, 0..69 are 20xx
YearOfTwoDigits(v) == IF v < 70 THEN 2000 + v ELSE 1900 + v

\* the fields parsed so far, as <<year, month, day>>, with the field set
WithField(fields, item, v) ==
    IF item = "Y" THEN <<v, fields[2], fields[3]>>
    ELSE IF item = "y" THEN <<YearOfTwoDigits(v), fields[2], fields[3]>>
    ELSE IF item = "m" \/ item = "b" \/ item = "B" THEN <<fields[1], v, fields[3]>>
    ELSE <<fields[1], fields[2], v>>

\* the month (1..12) whose short name is the text, 0 when there is none
MonthOfName(name) ==
    IF \E k \in 1..Len(ShortMonths) : ShortMonths[k] = name
    THEN CHOOSE k \in 1..Len(ShortMonths) : ShortMonths[k] = name
    ELSE 0

\* the length of the month name at the start of s: the short name, and for
\* B the rest of the long name when it follows
MonthNameLength(s, item, month) ==
    IF /\ item = "B"
       /\ StartsWith(ToLowercase(SubSeq(s, 4, Len(s))), LongMonthRests[month])
    THEN 3 + Len(LongMonthRests[month])
    ELSE 3

RECURSIVE MatchItems(_, _, _)

\* a numeric field of n digits at the start of s
MatchNumber(s, item, rest, fields, n) ==
    IF n = 0 THEN None
    ELSE MatchItems(SubSeq(s, n + 1, Len(s)), rest,
                    WithField(fields, item, DigitsValue(SubSeq(s, 1, n), 0)))

\* a year written with a sign: any number of digits after it
MatchSignedYear(s, rest, fields, sign, n) ==
    IF n = 0 THEN None
    ELSE MatchItems(SubSeq(s, n + 1, Len(s)), rest,
                    WithField(fields, "Y", sign * DigitsValue(SubSeq(s, 1, n), 0)))

\* a numeric field at the start of s, leading whitespace being taken off
\* already: %Y takes a sign, and without one as many digits as its width
MatchNumeric(s, item, rest, fields) ==
    IF item = "Y" /\ StartsWith(s, "-")
    THEN MatchSignedYear(SubSeq(s, 2, Len(s)), rest, fields, -1, LeadingDigits(SubSeq(s, 2, Len(s)), Len(s)))
    ELSE IF item = "Y" /\ StartsWith(s, "+")
    THEN MatchSignedYear(SubSeq(s, 2, Len(s)), rest, fields, 1, LeadingDigits(SubSeq(s, 2, Len(s)), Len(s)))
    ELSE MatchNumber(s, item, rest, fields, LeadingDigits(s, FieldWidth(item)))

\* a month name at the start of s, the month being given
MatchMonth(s, item, rest, fields, month) ==
    IF month = 0 THEN None
    ELSE MatchItems(SubSeq(s, MonthNameLength(s, item, month) + 1, Len(s)), rest,
                    WithField(fields, item, month))

\* NaiveDate::parse_from_str: the items of one format against the text
MatchItems(s, items, fields) ==
    IF Len(items) = 0 THEN (IF s = "" /\ IsValidDate(fields) THEN Some(fields) ELSE None)
    ELSE IF items[1] \in {"d", "m", "Y", "y"}
    THEN MatchNumeric(TrimStart(s), items[1], Tail(items), fields)
    ELSE IF items[1] \in {"b", "B"}
    THEN MatchMonth(s, items[1], Tail(items), fields,
                    MonthOfName(IF Len(s) < 3 THEN "" ELSE ToLowercase(SubSeq(s, 1, 3))))
    ELSE IF items[1] = " " THEN MatchItems(TrimStart(s), Tail(items), fields)
    ELSE IF StartsWith(s, items[1])
    THEN MatchItems(SubSeq(s, Len(items[1]) + 1, Len(s)), Tail(items), fields)
    ELSE None

\* the loop of parse_string over the formats from k on
RECURSIVE TryFormats(_, _)
TryFormats(trimmed, k) ==
    IF k > Len(DateFormats) THEN None
    ELSE IF MatchItems(trimmed, DateFormats[k], <<0, 0, 0>>) # None
    THEN MatchItems(trimmed, DateFormats[k], <<0, 0, 0>>)
    ELSE TryFormats(trimmed, k + 1)

\* ExcelDateParser::parse_string
DateParseString(text) == TryFormats(Trim(text), 1)

\* ExcelDateTime::as_datetime(..).date() in the 1900 date system: the day
\* that many days after the epoch, serials below 60 counting one day more;
\* none past the last day a NaiveDate holds
AsDate(f) ==
    IF f.m < 0 THEN None
    ELSE IF WholeExceeds(f, 95051, 805) THEN None
    ELSE IF Truncated(f) >= LeapDaySerial THEN Some(AddDays(ExcelEpoch, Truncated(f)))
    ELSE Some(AddDays(ExcelEpoch, Truncated(f) + 1))

\* ExcelDateParser::parse_cell
DateParseCell(cell) ==
    IF cell.kind = "DateTime" THEN AsDate(cell.f)
    ELSE IF cell.kind = "DateTimeIso"
    THEN MatchItems(cell.s, <<"Y", "-", "m", "-", "d">>, <<0, 0, 0>>)
    ELSE IF cell.kind = "Float" THEN FromExcelSerial(cell.f)
    ELSE IF cell.kind = "Int" THEN FromExcelSerial(Dec(cell.i, 0))
    ELSE IF cell.kind = "String" THEN DateParseString(cell.s)
    ELSE None

----------------------------------------------------------------------------
(* The institutions: parsers/banks/icici, parsers/banks/idfc_first, and    *)
(* the mock bank of the detector's tests                                   *)

ICICIBank ==
    [info |-> [name |-> "ICICI Bank", code |-> "icici",
               aliases |-> <<"ICICI", "ICICI Bank",
                             "Industrial Credit and Investment Corporation of India">>,
               detection_patterns |->
                   <<ContentContains(<<"ICICI Bank", "Industrial Credit and Investment Corporation",
                                       "ICICI Ltd">>),
                     FilenamePattern(<<"icici", "statement">>)>>],
     parsers |-> <<[format |-> "excel", bank_code |-> "icici", kind |-> "IciciExcelParser"]>>]

IDFCFirstBank ==
    [info |-> [name |-> "IDFC First Bank", code |-> "idfc_first",
               aliases |-> <<"IDFC FIRST", "IDFC First", "IDFC First Bank", "IDFCFirstBank",
                             "IDFCFIRST">>,
               detection_patterns |->
                   <<ContentContains(<<"IDFC FIRST", "IDFC First Bank", "IDFCFirstBank">>),
                     FilenamePattern(<<"idfc", "first", "statement">>),
                     FilenamePattern(<<"idfcfirst", "bank", "statement">>),
                     FilenamePattern(<<"IDFCFIRSTBank">>)>>],
     parsers |-> <<[format |-> "excel", bank_code |-> "idfc_first", kind |-> "IdfcFirstExcelParser"]>>]

\* tests::MockBank with its MockParser: Excel only, parse_bytes always Ok
MockBank ==
    [info |-> [name |-> "Test Bank", code |-> "test",
               aliases |-> <<"TEST", "Test Bank">>,
               detection_patterns |->
                   <<ContentContains(<<"Test Bank", "TEST STATEMENT">>),
                     FilenamePattern(<<"test", "statement">>)>>],
     parsers |-> <<[format |-> "excel", bank_code |-> "test", kind |-> "MockParser"]>>]

\* an institution registered by the embedding application whose one Format
\* Parser reads OFX: a MockBank with another name and format, told by the
\* content patterns "Acme(" (which does not compile) and "Acme.*Bank"
OfxBank ==
    [info |-> [name |-> "Acme Bank", code |-> "acme",
               aliases |-> <<"ACME">>,
               detection_patterns |->
                   <<ContentRegex(FALSE, FALSE, <<"Acme(">>),
                     ContentRegex(TRUE, FALSE, <<"Acme", "Bank">>),
                     FilenamePattern(<<"acme", "statement">>)>>],
     parsers |-> <<[format |-> "ofx", bank_code |-> "acme", kind |-> "MockParser"]>>]

\* a second institution registered under the code of MockBank: another name,
\* and its one Format Parser reads OFX
SecondTestBank ==
    [info |-> [name |-> "Test Bank OFX", code |-> "test",
               aliases |-> <<"TEST">>,
               detection_patterns |-> <<ContentContains(<<"Test Bank">>)>>],
     parsers |-> <<[format |-> "ofx", bank_code |-> "test", kind |-> "MockParser"]>>]

\* the institutions register_bank is called with after construction
ExtraBanks == {MockBank, OfxBank, SecondTestBank}
AllBanks == {ICICIBank, IDFCFirstBank} \cup ExtraBanks

MaxBanks == 4           \* institutions the registry may hold

----------------------------------------------------------------------------
(* The spreadsheet readers: rows of cells, cells as cell_to_string gives   *)
(* them; a file that is no workbook has no rows to give                    *)

RECURSIVE Join(_, _)
Join(cells, sep) ==
    IF Len(cells) = 0 THEN ""
    ELSE IF Len(cells) = 1 THEN cells[1]
    ELSE cells[1] \o sep \o Join(Tail(cells), sep)

\* the lower-cased cells of a row joined by blanks
RowText(row) == Join([k \in 1..Len(row) |-> ToLowercase(CellToString(row[k]))], " ")

ParseErr(kind, message) == [ok |-> FALSE, kind |-> kind, message |-> message]

\* ParsedTransaction
ParsedTransaction(date, description, amount, transaction_type, balance, reference) ==
    [date |-> date, description |-> description, amount |-> amount,
     transaction_type |-> transaction_type, balance |-> balance, reference |-> reference,
     mode |-> None]

\* NaiveDate's order
DateBefore(a, b) ==
    \/ a[1] < b[1]
    \/ (a[1] = b[1] /\ a[2] < b[2])
    \/ (a[1] = b[1] /\ a[2] = b[2] /\ a[3] < b[3])

Earlier(a, b) == IF DateBefore(b, a) THEN b ELSE a
Later(a, b) == IF DateBefore(b, a) THEN a ELSE b

\* transactions.iter().map(|t| t.date).min()
RECURSIVE MinDate(_)
MinDate(transactions) ==
    IF Len(transactions) = 0 THEN None
    ELSE IF Len(transactions) = 1 THEN Some(transactions[1].date)
    ELSE Some(Earlier(transactions[1].date, MinDate(Tail(transactions))[1]))

\* transactions.iter().map(|t| t.date).max()
RECURSIVE MaxDate(_)
MaxDate(transactions) ==
    IF Len(transactions) = 0 THEN None
    ELSE IF Len(transactions) = 1 THEN Some(transactions[1].date)
    ELSE Some(Later(transactions[1].date, MaxDate(Tail(transactions))[1]))

\* a ParseResult::new that takes the dates of the first and the last transaction
ParseResultNewFirstLast(transactions) ==
    [ok |-> TRUE, transactions |-> transactions,
     start_date |-> IF Len(transactions) = 0 THEN None ELSE Some(transactions[1].date),
     end_date |-> IF Len(transactions) = 0 THEN None
                  ELSE Some(transactions[Len(transactions)].date),
     account_number |-> None, bank_name |-> None]

\* ParseResult::new, as the Ok value of a ParserResult
ParseResultNew(transactions) ==
    [ok |-> TRUE, transactions |-> transactions,
     start_date |-> MinDate(transactions), end_date |-> MaxDate(transactions),
     account_number |-> None, bank_name |-> None]

\* the column indexes of the two layouts (IciciColumns, IdfcFirstColumns),
\* under common names
Columns(kind) ==
    IF kind = "IciciExcelParser"
    THEN [date |-> 1, reference |-> 3, description |-> 4, debit |-> 5, credit |-> 6,
          balance |-> 7]
    ELSE [date |-> 0, reference |-> 3, description |-> 2, debit |-> 4, credit |-> 5,
          balance |-> 6]

\* the closure get_cell of parse_rows
GetCell(row, idx) == IF idx < Len(row) THEN Some(row[idx + 1]) ELSE None

\* get_cell(..).and_then(ExcelDateParser::parse_cell)
DateAt(row, idx) == IF GetCell(row, idx) = None THEN None ELSE DateParseCell(GetCell(row, idx)[1])

\* get_cell(..).and_then(ExcelAmountParser::parse_cell)
AmountAt(row, idx) ==
    IF GetCell(row, idx) = None THEN None ELSE AmountParseCell(GetCell(row, idx)[1])

\* get_cell(..).map(|c| cell_to_string(c).trim().to_string())
TextAt(row, idx) ==
    IF GetCell(row, idx) = None THEN None ELSE Some(Trim(CellToString(GetCell(row, idx)[1])))

\* the filter of the cheque number that keeps "-" (ICICI reader)
IciciKeepsReference(s) == s # "" /\ s # "0"

\* the filter of the cheque number of the IDFC First reader
IdfcKeepsReference(s) == s # "" /\ s # "0" /\ s # "-"

KeepsReference(kind, s) ==
    IF kind = "IciciExcelParser" THEN IciciKeepsReference(s) ELSE IdfcKeepsReference(s)

\* .filter(..) on the text of the cheque number cell
FilteredReference(kind, text) ==
    IF text # None /\ KeepsReference(kind, text[1]) THEN text ELSE None

\* the reference of a row
ReferenceAt(kind, row) == FilteredReference(kind, TextAt(row, Columns(kind).reference))

\* a row body that books a negative cell with its sign
RowTransactionSigned(kind, row, date, description, debit, credit) ==
    IF date = None \/ description = "" THEN None
    ELSE IF debit # None /\ debit[1].m # 0
    THEN Some(ParsedTransaction(date[1], description, debit[1], "Debit",
                                AmountAt(row, Columns(kind).balance), ReferenceAt(kind, row)))
    ELSE IF credit # None /\ credit[1].m # 0
    THEN Some(ParsedTransaction(date[1], description, credit[1], "Credit",
                                AmountAt(row, Columns(kind).balance), ReferenceAt(kind, row)))
    ELSE None

\* the body of the loop of parse_rows once the date, the description and the
\* two amounts of the row are read: the transaction pushed, none when the row
\* is skipped
RowTransaction(kind, row, date, description, debit, credit) ==
    IF date = None \/ description = "" THEN None
    ELSE IF debit # None /\ debit[1].m # 0
    THEN Some(ParsedTransaction(date[1], description, DecimalAbs(debit[1]), "Debit",
                                AmountAt(row, Columns(kind).balance), ReferenceAt(kind, row)))
    ELSE IF credit # None /\ credit[1].m # 0
    THEN Some(ParsedTransaction(date[1], description, DecimalAbs(credit[1]), "Credit",
                                AmountAt(row, Columns(kind).balance), ReferenceAt(kind, row)))
    ELSE None

\* .unwrap_or_default() on the description
UnwrapOrDefault(text) == IF text = None THEN "" ELSE text[1]

\* the row's contribution once its date cell is parsed: a panic of the date
\* parser unwinds before the other cells are read
ExtractRowDated(kind, row, date) ==
    IF date = DaysOutOfBounds THEN DaysOutOfBounds
    ELSE RowTransaction(kind, row, date,
                        UnwrapOrDefault(TextAt(row, Columns(kind).description)),
                        AmountAt(row, Columns(kind).debit), AmountAt(row, Columns(kind).credit))

\* what a row that is neither empty nor a termination marker contributes
ExtractRow(kind, row) == ExtractRowDated(kind, row, DateAt(row, Columns(kind).date))

\* the stop test of the ICICI reader on the lower-cased leading cell
IciciStops(text) ==
    \/ Contains(text, "legend")
    \/ Contains(text, "note:")
    \/ (Contains(text, "*") /\ Len(text) < 10)

\* the stop test of the IDFC First reader on the lower-cased leading cell
IdfcStops(text) ==
    \/ Contains(text, "total")
    \/ Contains(text, "opening balance")
    \/ Contains(text, "closing balance")
    \/ Contains(text, "summary")

\* whether the row is a termination marker
Stops(kind, row) ==
    IF kind = "IciciExcelParser" THEN IciciStops(ToLowercase(CellToString(row[1])))
    ELSE IdfcStops(ToLowercase(CellToString(row[1])))

\* the run of empty rows that ends the IDFC First extraction
MaxEmptyRun == 3

Pushed(transactions, tx) == IF tx = None THEN transactions ELSE Append(transactions, tx[1])

RECURSIVE ExtractFrom(_, _, _, _, _)

\* the loop of parse_rows after the row at k gave extracted: a panic ends
\* the call, a transaction is pushed, and the loop goes on
ExtractedThen(kind, rows, k, transactions, extracted) ==
    IF extracted = DaysOutOfBounds THEN DaysOutOfBounds
    ELSE ExtractFrom(kind, rows, k + 1, 0, Pushed(transactions, extracted))

\* the loop of parse_rows from the 1-indexed row k on: the transactions it
\* ends with, or the panic of the first row that panics
ExtractFrom(kind, rows, k, consecutive_empty_rows, transactions) ==
    IF k > Len(rows) THEN [ok |-> TRUE, transactions |-> transactions]
    ELSE IF IsRowEmpty(rows[k])
    THEN IF kind = "IdfcFirstExcelParser" /\ consecutive_empty_rows + 1 >= MaxEmptyRun
         THEN [ok |-> TRUE, transactions |-> transactions]
         ELSE ExtractFrom(kind, rows, k + 1, consecutive_empty_rows + 1, transactions)
    ELSE IF Stops(kind, rows[k]) THEN [ok |-> TRUE, transactions |-> transactions]
    ELSE ExtractedThen(kind, rows, k, transactions, ExtractRow(kind, rows[k]))

\* the display name parse_rows sets
BankNameOf(kind) == IF kind = "IciciExcelParser" THEN "ICICI Bank" ELSE "IDFC First Bank"

\* the end of parse_rows: the panic of the loop, or ParseResult::new of the
\* transactions under the display name of the reader
ParsedRows(kind, extracted) ==
    IF ~extracted.ok THEN extracted
    ELSE [ParseResultNew(extracted.transactions) EXCEPT !.bank_name = Some(BankNameOf(kind))]

\* IciciExcelParser::parse_rows and IdfcFirstExcelParser::parse_rows
ParseRows(kind, rows, start_row) ==
    ParsedRows(kind, ExtractFrom(kind, rows, start_row + 1, 0, <<>>))

IciciHeaderRow == 10
IciciDataStartRow == 11
IdfcHeaderRow == 19
IdfcDataStartRow == 20

IciciIsHeader(row_text) == Contains(row_text, "value date") \/ Contains(row_text, "transaction date")

\* the rows (0-indexed) the header search of the ICICI reader accepts
IciciHeaderRows(rows) == {i \in 0..(Len(rows) - 1) : IciciIsHeader(RowText(rows[i + 1]))}

\* the header search of the ICICI reader
IciciFindHeader(rows) ==
    IF IciciHeaderRows(rows) # {} THEN ParseRows("IciciExcelParser", rows, Least(IciciHeaderRows(rows)) + 1)
    ELSE ParseErr("ParseError", "Could not find ICICI header row")

\* parse_excel_content of the ICICI reader on the rows of the first sheet
IciciParseSheet(rows) ==
    IF Len(rows) <= IciciDataStartRow
    THEN ParseErr("ParseError", "File does not have enough rows for ICICI format")
    ELSE IF /\ ~Contains(RowText(rows[IciciHeaderRow + 1]), "value date")
            /\ ~Contains(RowText(rows[IciciHeaderRow + 1]), "transaction")
    THEN IciciFindHeader(rows)
    ELSE ParseRows("IciciExcelParser", rows, IciciDataStartRow)

\* IciciExcelParser::parse_excel_content
IciciParseExcelContent(data) ==
    IF data.rows = None THEN ParseErr("ParseError", "Failed to open Excel file")
    ELSE IciciParseSheet(data.rows[1])

IdfcIsHeader(row_text) ==
    \/ Contains(row_text, "transaction date")
    \/ (Contains(row_text, "particulars") /\ Contains(row_text, "debit") /\ Contains(row_text, "credit"))

\* the rows (0-indexed) the header search of the IDFC First reader accepts
IdfcHeaderRows(rows) == {i \in 0..(Len(rows) - 1) : IdfcIsHeader(RowText(rows[i + 1]))}

\* IdfcFirstExcelParser::parse_with_dynamic_header
IdfcParseWithDynamicHeader(rows) ==
    IF IdfcHeaderRows(rows) # {} THEN ParseRows("IdfcFirstExcelParser", rows, Least(IdfcHeaderRows(rows)) + 1)
    ELSE ParseErr("ParseError", "Could not find IDFC First header row")

\* parse_excel_content of the IDFC First reader on the rows of the first sheet
IdfcParseSheet(rows) ==
    IF Len(rows) <= IdfcDataStartRow THEN IdfcParseWithDynamicHeader(rows)
    ELSE IF /\ ~Contains(RowText(rows[IdfcHeaderRow + 1]), "transaction date")
            /\ ~Contains(RowText(rows[IdfcHeaderRow + 1]), "particulars")
    THEN IdfcParseWithDynamicHeader(rows)
    ELSE ParseRows("IdfcFirstExcelParser", rows, IdfcDataStartRow)

\* IdfcFirstExcelParser::parse_excel_content
IdfcParseExcelContent(data) ==
    IF data.rows = None THEN ParseErr("ParseError", "Failed to open Excel file")
    ELSE IdfcParseSheet(data.rows[1])

\* FormatParser::parse_bytes of the three parsers; ParseResult::new leaves
\* bank_name unset
ParseBytes(parser, data) ==
    IF parser.kind = "IciciExcelParser" THEN IciciParseExcelContent(data)
    ELSE IF parser.kind = "IdfcFirstExcelParser" THEN IdfcParseExcelContent(data)
    ELSE ParseResultNew(<<>>)

\* the text after the last '.', the whole text when there is none
RsplitDotNext(path) ==
    IF Occurrences(path, ".") = {} THEN path
    ELSE SubSeq(path, Greatest(Occurrences(path, ".")) + 1, Len(path))

\* FormatParser::can_parse: the default and the two overrides
CanParse(parser, file_path) ==
    IF parser.kind = "MockParser" THEN FromExtension(RsplitDotNext(file_path)) = Some(parser.format)
    ELSE \/ ToLowercase(RsplitDotNext(file_path)) = "xls"
         \/ ToLowercase(RsplitDotNext(file_path)) = "xlsx"

----------------------------------------------------------------------------
(* The files handed to auto_parse.  The bytes of a file are seen twice: as *)
(* the text String::from_utf8_lossy makes of them, and as the rows of the  *)
(* first sheet when they are a workbook.                                   *)

\* a row of String cells
Cells(texts) == [k \in 1..Len(texts) |-> StringCell(texts[k])]

IciciHeader == <<"S No.", "Value Date", "Transaction Date", "Cheque Number",
                 "Transaction Remarks", "Withdrawal Amount(INR)", "Deposit Amount(INR)",
                 "Balance(INR)">>
IdfcHeader == <<"Transaction Date", "Value Date", "Particulars", "Cheque No.", "Debit",
                "Credit", "Balance">>
LedgerHeader == <<"Date", "Particulars", "Debit", "Credit">>
DataRow == <<"16-Jan-2025", "16-Jan-2025", "Rent", "", "100.00", "", "900.00">>

\* n rows: the header at 0-indexed row h, one data row under it, the rest empty
SheetOf(n, h, header) ==
    [i \in 1..n |-> IF i = h + 1 THEN Cells(header) ELSE IF i = h + 2 THEN Cells(DataRow) ELSE <<>>]

NotAWorkbook == None
\* a row dated before DataRow
EarlierDataRow == <<"31-12-2024", "31-12-2024", "Salary", "", "20.00", "50.00", "950.00">>
\* the later transaction comes first in the sheet
IciciStatement ==
    Some(SheetOf(IciciDataStartRow + 1, IciciHeaderRow, IciciHeader) \o <<Cells(EarlierDataRow)>>)
IdfcStatement == Some(SheetOf(IdfcDataStartRow + 1, IdfcHeaderRow, IdfcHeader))
\* an export without the metadata rows: header first, one transaction
ShortStatement == Some(SheetOf(2, 0, IdfcHeader))
\* a sheet whose header names no date column the ICICI reader knows
LedgerStatement == Some(SheetOf(IdfcDataStartRow + 1, IdfcHeaderRow, LedgerHeader))
\* a sheet without any header row
HeaderlessSheet == Some(SheetOf(IciciDataStartRow + 1, IciciHeaderRow, <<"Summary">>))

\* DataRow with a number in the Value Date column of the ICICI layout that
\* no date is made of (Data::Float(200000000000.0)); the Transaction Date
\* column of the IDFC First layout, the first, keeps its date
LargeNumberRow == [Cells(DataRow) EXCEPT ![2] = FloatCell(Dec(2, -11))]
\* an ICICI statement whose second transaction carries that number
LargeNumberStatement ==
    Some(SheetOf(IciciDataStartRow + 1, IciciHeaderRow, IciciHeader) \o <<LargeNumberRow>>)

Sheets == {NotAWorkbook, IciciStatement, IdfcStatement, ShortStatement, LedgerStatement,
           HeaderlessSheet, LargeNumberStatement}

ExcelPaths == {"statement.xlsx", "icici_statement.xlsx", "IDFCFIRSTBank.XLS", ".xlsx"}
OtherPaths == {"acme_statement.ofx", "icici.ofx", "statement", "statement.pdf"}
FilePaths == ExcelPaths \cup OtherPaths \cup {"test_statement.xls"}

ExcelTexts == {"", "ICICI Bank", "IDFC First Bank, ICICI Bank", "Test Bank"}
OtherTexts == {"", "ICICI Bank", "Acme Bank, ICICI Ltd"}
Texts == ExcelTexts \cup OtherTexts \cup {"IDFC FIRST"}

\* the files auto_parse is called with
Files ==
    {[file_path |-> p, data |-> [text |-> t, rows |-> r]] :
        p \in ExcelPaths, t \in ExcelTexts,
        r \in {NotAWorkbook, IciciStatement, ShortStatement, LedgerStatement,
                LargeNumberStatement}}
    \cup {[file_path |-> p, data |-> [text |-> t, rows |-> NotAWorkbook]] :
            p \in OtherPaths, t \in OtherTexts}

Parsers == {b.parsers[k] : b \in AllBanks, k \in {1}}

\* detect_confidence, parse_bytes, detect_format, can_parse and the extension
\* of parse_by_extension for the files of the model, computed once
ConfidenceTable ==
    [x \in AllBanks \X FilePaths \X Texts |-> DetectConfidence(x[1], x[2], x[3])] @@ <<>>
ParseBytesTable ==
    [x \in Parsers \X Sheets |-> ParseBytes(x[1], [text |-> "", rows |-> x[2]])] @@ <<>>
CanParseTable ==
    [x \in Parsers \X FilePaths |-> CanParse(x[1], x[2])] @@ <<>>

ConfidenceOf(bank, file_path, content) ==
    IF <<bank, file_path, content>> \in DOMAIN ConfidenceTable
    THEN ConfidenceTable[<<bank, file_path, content>>]
    ELSE DetectConfidence(bank, file_path, content)

ParsedBy(parser, data) ==
    IF <<parser, data.rows>> \in DOMAIN ParseBytesTable
    THEN ParseBytesTable[<<parser, data.rows>>]
    ELSE ParseBytes(parser, data)

CanParseBy(parser, file_path) ==
    IF <<parser, file_path>> \in DOMAIN CanParseTable
    THEN CanParseTable[<<parser, file_path>>]
    ELSE CanParse(parser, file_path)

----------------------------------------------------------------------------
(* parsers/detector.rs                                                     *)

\* Path::components leaves out a trailing '/' and every "." after the first
\* component: the path without them at its end ("" for "." and "./")
RECURSIVE WithoutTrailing(_)
WithoutTrailing(path) ==
    IF path = "." THEN ""
    ELSE IF Len(path) >= 1 /\ SubSeq(path, Len(path), Len(path)) = "/"
    THEN WithoutTrailing(SubSeq(path, 1, Len(path) - 1))
    ELSE IF Len(path) >= 2 /\ SubSeq(path, Len(path) - 1, Len(path)) = "/."
    THEN WithoutTrailing(SubSeq(path, 1, Len(path) - 2))
    ELSE path

\* the text after the last '/', the whole text when there is none
AfterLastSlash(path) ==
    IF Occurrences(path, "/") = {} THEN path
    ELSE SubSeq(path, Greatest(Occurrences(path, "/")) + 1, Len(path))

\* the last component of the path, "" when it has none
LastComponent(path) == AfterLastSlash(WithoutTrailing(path))

\* Path::file_name: the last component of the path, none when the path has
\* no component or ends in ".."
PathFileName(path) ==
    IF LastComponent(path) = "" \/ LastComponent(path) = ".." THEN None
    ELSE Some(LastComponent(path))

\* the extension of a file name: the part after its last '.', none when the
\* name has no '.' or only a leading one
ExtensionOfName(name) ==
    IF Occurrences(name, ".") = {} \/ Occurrences(name, ".") = {1} THEN None
    ELSE Some(SubSeq(name, Greatest(Occurrences(name, ".")) + 1, Len(name)))

\* Path::extension
PathExtension(path) ==
    IF PathFileName(path) = None THEN None ELSE ExtensionOfName(PathFileName(path)[1])

\* BankDetector::detect_format
DetectFormat(file_path) ==
    IF PathExtension(file_path) = None
    THEN [ok |-> FALSE, kind |-> "ParseError", message |-> "No file extension found"]
    ELSE IF FromExtension(PathExtension(file_path)[1]) = None
    THEN [ok |-> FALSE, kind |-> "UnsupportedFormat", message |-> "Unsupported file extension"]
    ELSE [ok |-> TRUE, format |-> FromExtension(PathExtension(file_path)[1])[1]]

DetectFormatTable ==
    [p \in FilePaths |-> DetectFormat(p)] @@ <<>>

DetectFormatOf(file_path) ==
    IF file_path \in FilePaths THEN DetectFormatTable[file_path] ELSE DetectFormat(file_path)

AcceptThreshold == 3
StrongAbove == 8
ModerateAbove == 5

DetectionReason(confidence) ==
    IF confidence > StrongAbove THEN "Strong match from filename and content"
    ELSE IF confidence > ModerateAbove THEN "Moderate match from filename or content"
    ELSE "Weak match, low confidence"

RECURSIVE DetectLoop(_, _, _, _, _, _, _)

\* the body of the loop of detect_from_content for institution k, whose
\* score is confidence and whose parser for the format is parser
DetectStep(bank_list, content, file_path, format, k, best_match, best_confidence, confidence, parser) ==
    IF confidence > best_confidence
    THEN DetectLoop(bank_list, content, file_path, format, k + 1,
                    IF parser # None
                    THEN Some([bank |-> bank_list[k].info.code, confidence |-> confidence,
                               format |-> format,
                               suggested_parser |-> ParserName(parser[1]),
                               detection_reason |-> DetectionReason(confidence)])
                    ELSE best_match,
                    confidence)
    ELSE DetectLoop(bank_list, content, file_path, format, k + 1, best_match, best_confidence)

\* the loop of detect_from_content from institution k on
DetectLoop(bank_list, content, file_path, format, k, best_match, best_confidence) ==
    IF k > Len(bank_list) THEN [best_match |-> best_match, best_confidence |-> best_confidence]
    ELSE DetectStep(bank_list, content, file_path, format, k, best_match, best_confidence,
                    ConfidenceOf(bank_list[k], file_path, content),
                    GetParser(bank_list[k], format))

\* the return of detect_from_content: only above the threshold
Accepted(r) == IF r.best_confidence >= AcceptThreshold THEN r.best_match ELSE None

\* a detect_from_content that takes every institution as a candidate,
\* whatever its score, and applies no threshold
DetectFromContentNoThreshold(bank_list, content, file_path, format) ==
    DetectLoop(bank_list, content, file_path, format, 1, None, -1).best_match

\* BankDetector::detect_from_content
DetectFromContent(bank_list, content, file_path, format) ==
    Accepted(DetectLoop(bank_list, content, file_path, format, 1, None, 0))

\* detection.ok_or_else(...)
OkOrElse(detection_result) ==
    IF detection_result = None
    THEN [ok |-> FALSE, kind |-> "ParseError", message |-> "Could not detect bank from file"]
    ELSE [ok |-> TRUE, detection |-> detection_result[1]]

\* detect once detect_format has answered
DetectWithFormat(bank_list, file_path, content_str, format) ==
    IF ~format.ok THEN format
    ELSE OkOrElse(DetectFromContent(bank_list, content_str, file_path, format.format))

\* BankDetector::detect
Detect(bank_list, file_path, data) ==
    DetectWithFormat(bank_list, file_path, data.text, DetectFormatOf(file_path))

----------------------------------------------------------------------------
(* parsers/registry.rs                                                     *)

\* ParserRegistry::get_bank
GetBank(bank_map, code) == IF code \in DOMAIN bank_map THEN Some(bank_map[code]) ELSE None

\* result.bank_name = Some(bank.info().name.to_string()), the one assignment
\* auto_parse, parse_with_bank and parse_by_extension make to the result of
\* the parser
Stamp(parse_result, bank) == [parse_result EXCEPT !.bank_name = Some(bank.info.name)]

RECURSIVE ParseByExtensionLoop(_, _, _, _, _)

\* parser.parse_bytes(data, options)? and the stamping of the result
ParsedAndStamped(parsed, bank) == IF parsed.ok THEN Stamp(parsed, bank) ELSE parsed

\* if let Ok(mut result) = parser.parse_bytes(data, options): the stamped
\* result is returned, an Err goes on with the next institution; a panic of
\* the parser unwinds through the loop
ParsedOrNext(order, k, format, file_path, data, parsed) ==
    IF parsed.ok THEN Stamp(parsed, order[k])
    ELSE IF parsed.kind = "Panic" THEN parsed
    ELSE ParseByExtensionLoop(order, k + 1, format, file_path, data)

\* the body of the loop of parse_by_extension for the institution at k,
\* whose parser for the format is parser
ParseByExtensionStep(order, k, format, file_path, data, parser) ==
    IF parser # None /\ CanParseBy(parser[1], file_path)
    THEN ParsedOrNext(order, k, format, file_path, data, ParsedBy(parser[1], data))
    ELSE ParseByExtensionLoop(order, k + 1, format, file_path, data)

\* the loop of parse_by_extension over the institutions in the order the
\* map's values() yields them
ParseByExtensionLoop(order, k, format, file_path, data) ==
    IF k > Len(order)
    THEN ParseErr("UnsupportedFormat", "No parser found")
    ELSE ParseByExtensionStep(order, k, format, file_path, data, GetParser(order[k], format))

\* the format parse_by_extension derives from the path
ExtensionFormat(file_path) ==
    FromExtension(ToLowercase(RsplitDotNext(file_path)))

ExtensionFormatTable ==
    [p \in FilePaths |-> ExtensionFormat(p)] @@ <<>>

ExtensionFormatOf(file_path) ==
    IF file_path \in FilePaths THEN ExtensionFormatTable[file_path] ELSE ExtensionFormat(file_path)

\* parse_by_extension once the format is derived
ParseWithExtensionFormat(order, file_path, data, format) ==
    IF format = None THEN ParseErr("UnsupportedFormat", "Unknown extension")
    ELSE ParseByExtensionLoop(order, 1, format[1], file_path, data)

\* ParserRegistry::parse_by_extension, the map's values() coming in the given order
ParseByExtension(order, file_path, data) ==
    ParseWithExtensionFormat(order, file_path, data, ExtensionFormatOf(file_path))

\* the parser auto_parse selects: the detected institution's, looked up in
\* the map by its code, for the detected format
SelectedBank(bank_map, detected) ==
    IF detected.ok THEN GetBank(bank_map, detected.detection.bank) ELSE None

SelectedParser(bank, detected) ==
    IF bank # None THEN GetParser(bank[1], detected.detection.format) ELSE None

\* auto_parse after detection
AutoParseWith(bank, parser, order, file_path, data) ==
    IF parser # None
    THEN ParsedAndStamped(ParsedBy(parser[1], data), bank[1])
    ELSE ParseByExtension(order, file_path, data)

AutoParseDetected(bank_map, detected, bank, order, file_path, data) ==
    AutoParseWith(bank, SelectedParser(bank, detected), order, file_path, data)

\* ParserRegistry::auto_parse, the map's values() coming in the given order
AutoParseOf(bank_list, bank_map, order, file_path, data) ==
    AutoParseDetected(bank_map, Detect(bank_list, file_path, data),
                      SelectedBank(bank_map, Detect(bank_list, file_path, data)),
                      order, file_path, data)

\* ParserRegistry::parse_with_bank: the error of an unknown code, the error
\* of a missing parser, or parser.parse_bytes(data, options)? and the
\* stamping of the result
ParseWithBankOf(bank_map, bank_code, format, data) ==
    IF GetBank(bank_map, bank_code) = None
    THEN ParseErr("ParseError", "Bank not found: " \o bank_code)
    ELSE IF GetParser(GetBank(bank_map, bank_code)[1], format) = None
    THEN ParseErr("ParseError", "No parser for format " \o format \o " in bank " \o bank_code)
    ELSE ParsedAndStamped(ParsedBy(GetParser(GetBank(bank_map, bank_code)[1], format)[1], data),
                          GetBank(bank_map, bank_code)[1])

\* ParserRegistry::register_bank: the detector's list grows, the map keeps
\* one institution per code
RegisterBankOf(registry, bank) ==
    [banks |-> Append(registry.banks, bank),
     bankMap |-> [c \in DOMAIN registry.bankMap \cup {bank.info.code} |->
                     IF c = bank.info.code THEN bank ELSE registry.bankMap[c]]]

\* ParserRegistry::new
NewRegistry ==
    RegisterBankOf(RegisterBankOf([banks |-> <<>>, bankMap |-> <<>>], ICICIBank), IDFCFirstBank)

\* the orders in which HashMap::values() may yield the institutions
RECURSIVE Orders(_)
Orders(S) ==
    IF S = {} THEN {<<>>}
    ELSE UNION {{<<b>> \o rest : rest \in Orders(S \ {b})} : b \in S}

MapValues(bank_map) == {bank_map[c] : c \in DOMAIN bank_map}

\* whether auto_parse goes on to parse_by_extension
FallsBack(bank_list, bank_map, file_path, data) ==
    SelectedParser(SelectedBank(bank_map, Detect(bank_list, file_path, data)),
                   Detect(bank_list, file_path, data)) = None

----------------------------------------------------------------------------
(* The registry operations, one call per step                              *)

\* the registry a register_bank leaves
Registers(r) ==
    /\ banks' = r.banks
    /\ bankMap' = r.bankMap

\* register_bank of another institution; the outcome of an earlier auto_parse
\* or parse_with_bank is no longer looked at
RegisterBank ==
    \E bank \in ExtraBanks :
        /\ Len(banks) < MaxBanks
        /\ Registers(RegisterBankOf([banks |-> banks, bankMap |-> bankMap], bank))
        /\ file' = None
        /\ detection' = None
        /\ result' = None
        /\ call' = [op |-> "none"]
        /\ UNCHANGED <<ledgerVars, imp>>

\* auto_parse of one file: detection answers once, get_bank looks the
\* institution up; values() is iterated only by parse_by_extension
AutoParse ==
    \E orders \in {Orders(MapValues(bankMap))} :
        \E f \in Files :
        \E detected \in {Detect(banks, f.file_path, f.data)} :
        \E bank \in {SelectedBank(bankMap, detected)} :
            \E order \in (IF SelectedParser(bank, detected) = None THEN orders ELSE {<<>>}) :
                /\ file' = Some(f)
                /\ detection' = Some(detected)
                /\ result' = Some(AutoParseDetected(bankMap, detected, bank, order,
                                                    f.file_path, f.data))
                /\ call' = [op |-> "none"]
                /\ UNCHANGED <<banks, bankMap, ledgerVars, imp>>

\* the institution codes, the formats and the sheets parse_with_bank is
\* called with: "hdfc" is the code of no institution
BankCodes == {"icici", "idfc_first", "test", "hdfc"}
CallFormats == {"excel", "ofx"}
CallSheets == {NotAWorkbook, IciciStatement, ShortStatement, LargeNumberStatement}

\* parse_with_bank of the bytes of one file; the outcome of an earlier
\* auto_parse is no longer looked at
ParseWithBank ==
    \E bank_code \in BankCodes : \E format \in CallFormats : \E rows \in CallSheets :
        /\ call' = [op |-> "parse_with_bank", bank_code |-> bank_code, format |-> format,
                    data |-> [text |-> "", rows |-> rows],
                    out |-> ParseWithBankOf(bankMap, bank_code, format,
                                            [text |-> "", rows |-> rows])]
        /\ file' = None
        /\ detection' = None
        /\ result' = None
        /\ UNCHANGED <<banks, bankMap, ledgerVars, imp>>

----------------------------------------------------------------------------
(* The rows handed to the readers.  A sample row is written once, by its   *)
(* cells' roles, and laid out in the columns of each reader.               *)

SampleRow(lead, date, description, reference, debit, credit, balance) ==
    [lead |-> lead, date |-> date, description |-> description, reference |-> reference,
     debit |-> debit, credit |-> credit, balance |-> balance]

\* the row of a sample in the columns of the reader
Laid(kind, r) ==
    IF kind = "IciciExcelParser"
    THEN <<r.lead, r.date, r.date, r.reference, r.description, r.debit, r.credit, r.balance>>
    ELSE <<r.date, r.date, r.description, r.reference, r.debit, r.credit, r.balance>>

\* a withdrawal with a reference, amounts as text with separators
DebitSample ==
    SampleRow(IntCell(1), StringCell("15-01-2025"), StringCell(" Fuel "), StringCell(" UPI1 "),
              StringCell("1,234.56"), StringCell(""), FloatCell(Dec(9005, 1)))
\* a deposit written in parentheses, dated by a serial number, reference "0"
CreditSample ==
    SampleRow(IntCell(2), IntCell(45658), StringCell("Salary"), StringCell("0"),
              StringCell("-"), StringCell("(50.00)"), EmptyCell)
\* both amounts present, the withdrawal negative, reference "-"
BothSample ==
    SampleRow(EmptyCell, StringCell("16-Jan-2025"), StringCell("Rent"), StringCell("-"),
              FloatCell(Dec(-725, 2)), IntCell(3), StringCell("Rs.100.00"))
\* a withdrawal of zero beside a deposit, no reference cell content, dated
\* by an ISO date cell
ZeroDebitSample ==
    SampleRow(EmptyCell, DateTimeIsoCell("2025-01-14"), StringCell("Refund"), EmptyCell,
              StringCell("0.00"), StringCell("75 CR"), EmptyCell)
BadDateSample ==
    SampleRow(IntCell(3), StringCell("n/a"), StringCell("Rent"), StringCell("UPI2"),
              StringCell("10"), StringCell(""), EmptyCell)
BlankDescriptionSample ==
    SampleRow(IntCell(4), StringCell("15-01-2025"), StringCell("  "), StringCell("UPI3"),
              StringCell("10"), StringCell(""), EmptyCell)
NoAmountSample ==
    SampleRow(IntCell(5), StringCell("15-01-2025"), StringCell("Rent"), StringCell("UPI4"),
              StringCell("abc"), StringCell("0"), EmptyCell)
\* a withdrawal dated by a date-time cell, noon of 2025-01-15
\* its leading cell a duration, its reference cell a formula error
DateTimeSample ==
    SampleRow(DurationIsoCell("PT1H30M"), DateTimeCell(Dec(456725, 1)), StringCell("Cash"),
              ErrorCell("NA"), IntCell(20), EmptyCell, EmptyCell)
\* a withdrawal whose date cell holds a twelve-digit number, 200000000000
LargeNumberSample ==
    SampleRow(IntCell(7), FloatCell(Dec(2, -11)), StringCell("Rent"), StringCell("UPI6"),
              IntCell(30), EmptyCell, EmptyCell)

Samples == {DebitSample, CreditSample, BothSample, ZeroDebitSample, BadDateSample,
            BlankDescriptionSample, NoAmountSample, DateTimeSample, LargeNumberSample}

\* a row that ends before the amount columns
ShortRow(kind) == SubSeq(Laid(kind, DebitSample), 1, 3)
\* a row of cells without content
BlankRow == <<EmptyCell, StringCell(" ")>>
\* a row whose leading cell is a termination marker of the reader
MarkerRow(kind) ==
    IF kind = "IciciExcelParser" THEN <<StringCell("Legend")>> ELSE <<StringCell("Total")>>

\* a row whose leading cell is a termination marker of the other reader
OtherMarkerRow(kind) ==
    IF kind = "IciciExcelParser" THEN <<StringCell("Total")>> ELSE <<StringCell("Legend")>>

Kinds == {"IciciExcelParser", "IdfcFirstExcelParser"}

\* the rows a sheet is made of
SampleRows(kind) ==
    {Laid(kind, r) : r \in Samples}
    \cup {ShortRow(kind), BlankRow, MarkerRow(kind), OtherMarkerRow(kind)}

\* sheets with a run of empty rows before a transaction
EmptyRunSheets(kind) ==
    {<<BlankRow, BlankRow, BlankRow, Laid(kind, DebitSample)>>,
     <<BlankRow, BlankRow, Laid(kind, BadDateSample), BlankRow, Laid(kind, CreditSample)>>}

\* the sheets handed to parse_rows
RowSheets(kind) == SeqsUpTo(SampleRows(kind), MaxSheetRows) \cup EmptyRunSheets(kind)

\* the 0-indexed rows parse_rows is told to start at
StartRows == {0, 1}

\* n empty rows
Filler(n) == [i \in 1..n |-> <<>>]

\* the workbooks handed to parse_bytes: none, and sheets with the header of
\* a reader at 0-indexed row h over some data rows, or without a header
Workbooks(kind) ==
    {NotAWorkbook}
    \cup {Some(Filler(h) \o <<Cells(header)>> \o data) :
            h \in {0, IciciHeaderRow, IdfcHeaderRow},
            header \in {IciciHeader, IdfcHeader, LedgerHeader},
            data \in {<<>>, <<Laid(kind, DebitSample)>>,
                      <<Laid(kind, BadDateSample), Laid(kind, CreditSample)>>,
                      <<Laid(kind, LargeNumberSample), Laid(kind, CreditSample)>>}}
    \cup {Some(Filler(h) \o <<Laid(kind, DebitSample)>>) : h \in {0, IdfcDataStartRow}}

\* the serial numbers handed to from_excel_serial, as decimals
Serials ==
    {Dec(n, 0) : n \in {-1, 0, 1, 2, 58, 59, 60, 61, 366, 45657, 45658}}
    \cup {Dec(5, 1), Dec(15, 1), Dec(595, 1), Dec(605, 1)}
    \cup {Dec(1, -9), Dec(2, -11)}

\* the texts handed to ExcelAmountParser::parse_string
AmountTexts ==
    {"1,234.56", "Rs.100.00", "(50.00)", "", "-", "0", " 0 ", "0.00", "abc", "1.2.3",
     "100.00 CR", "75CR", "75Dr", "75 DR", "12.5DR", "INR 1,00,000", "$ 20", "()", "CR",
     "Rs", "-3.50", "+4", "(7)CR", "-75DR"}

\* literals of the formats of parse_string, each with the date it denotes
DateLiterals ==
    {[text |-> "31-12-2024", date |-> <<2024, 12, 31>>],
     [text |-> "31/12/2024", date |-> <<2024, 12, 31>>],
     [text |-> "31-12-24", date |-> <<2024, 12, 31>>],
     [text |-> "31/12/24", date |-> <<2024, 12, 31>>],
     [text |-> "31 Dec 2024", date |-> <<2024, 12, 31>>],
     [text |-> "16-Jan-2025", date |-> <<2025, 1, 16>>],
     [text |-> "31 December 2024", date |-> <<2024, 12, 31>>],
     [text |-> "2024-12-31", date |-> <<2024, 12, 31>>],
     [text |-> "2024/12/31", date |-> <<2024, 12, 31>>],
     [text |-> "12-31-2024", date |-> <<2024, 12, 31>>],
     [text |-> "12/31/2024", date |-> <<2024, 12, 31>>],
     [text |-> "Dec 31 2024", date |-> <<2024, 12, 31>>],
     [text |-> "December 31 2024", date |-> <<2024, 12, 31>>],
     [text |-> "16-Jan-25", date |-> <<2025, 1, 16>>],
     [text |-> "  29-02-2024 ", date |-> <<2024, 2, 29>>],
     [text |-> "1-3-1999", date |-> <<1999, 3, 1>>],
     [text |-> "05 sep 2023", date |-> <<2023, 9, 5>>]}

\* texts in none of the formats, or of no day of the calendar
NonDateTexts ==
    {"", "n/a", "29-02-2023", "31-13-2024", "2024-12-31T10:00", "31.12.2024", "32 Dec 2024",
     "31 Dex 2024", "31-12-2024x"}

\* the texts handed to parse_string: the literals, and texts of no format
DateTexts ==
    {l.text : l \in DateLiterals}
    \cup NonDateTexts

\* the headers of tests::test_column_detector
TestHeaders == <<"Date", "Description", "Debit", "Credit", "Balance">>

\* header texts sheets are made of
HeaderWords ==
    {"Date", "Value Date", "Txn Date", "Narration", "Amount", "Withdrawal Amt", "Dr", "CR",
     "Closing Balance", "Ref No", "Mode", "Sl"}

\* the header rows handed to detect_columns
HeaderRows ==
    {TestHeaders, IciciHeader, IdfcHeader, LedgerHeader} \cup SeqsUpTo(HeaderWords, MaxHeaders)

\* the arguments handed to generate_hash: texts that differ in letter case
\* and surrounding whitespace, amounts that differ in sign and trailing zeros
HashInputs ==
    [user_id : Users, account_id : {1, 2},
     transaction_date : {StatementDate, <<2025, 1, 17>>},
     amount : {Dec(100, 0), Dec(-1000, 1), Dec(250, 0)},
     description : {"Rent", " rent", "Fuel"},
     transaction_type : {"debit", "credit"},
     reference_number : {None, Some(""), Some(" UPI1"), Some("upi1")}]

\* generate_hash of a record of arguments
GenerateHashOf(input) ==
    GenerateHash(input.user_id, input.account_id, input.transaction_date, input.amount,
                 input.description, input.transaction_type, input.reference_number)

----------------------------------------------------------------------------
(* The reader and cell parser calls: a call is made when none is pending,  *)
(* and its result is held until the caller has taken it                    *)

Idling == call.op = "none"

\* parse_rows of a reader on a sheet
ParseRowsCall ==
    \E kind \in Kinds : \E rows \in RowSheets(kind) : \E start_row \in StartRows :
        /\ Idling
        /\ call' = [op |-> "parse_rows", kind |-> kind, rows |-> rows, start_row |-> start_row,
                    out |-> ParseRows(kind, rows, start_row)]
        /\ UNCHANGED <<ledgerVars, imp, parseVars>>

\* parse_bytes of a reader on the bytes of a file
ParseBytesCall ==
    \E kind \in Kinds : \E workbook \in Workbooks(kind) :
        /\ Idling
        /\ call' = [op |-> "parse_bytes", kind |-> kind, workbook |-> workbook,
                    out |-> ParseBytes([kind |-> kind], [text |-> "", rows |-> workbook])]
        /\ UNCHANGED <<ledgerVars, imp, parseVars>>

\* ExcelDateParser::from_excel_serial
FromExcelSerialCall ==
    \E serial \in Serials :
        /\ Idling
        /\ call' = [op |-> "from_excel_serial", serial |-> serial, out |-> FromExcelSerial(serial)]
        /\ UNCHANGED <<ledgerVars, imp, parseVars>>

\* ExcelAmountParser::clean and ExcelAmountParser::parse_string
AmountParseStringCall ==
    \E text \in AmountTexts :
        /\ Idling
        /\ call' = [op |-> "parse_string", text |-> text, cleaned |-> Clean(text),
                    out |-> AmountParseString(text)]
        /\ UNCHANGED <<ledgerVars, imp, parseVars>>

\* ExcelDateParser::parse_string
DateParseStringCall ==
    \E text \in DateTexts :
        /\ Idling
        /\ call' = [op |-> "date_parse_string", text |-> text, out |-> DateParseString(text)]
        /\ UNCHANGED <<ledgerVars, imp, parseVars>>

\* ExcelColumnDetector::detect_columns and ExcelColumnMapping::is_valid
DetectColumnsCall ==
    \E headers \in HeaderRows :
        /\ Idling
        /\ call' = [op |-> "detect_columns", headers |-> headers, out |-> DetectColumns(headers),
                    valid |-> IsValid(DetectColumns(headers))]
        /\ UNCHANGED <<ledgerVars, imp, parseVars>>

\* Model::generate_hash
GenerateHashCall ==
    \E input \in HashInputs :
        /\ Idling
        /\ call' = [op |-> "generate_hash", input |-> input, out |-> GenerateHashOf(input)]
        /\ UNCHANGED <<ledgerVars, imp, parseVars>>

\* the caller takes the result
ReturnCall ==
    /\ ~Idling
    /\ call' = [op |-> "none"]
    /\ UNCHANGED <<ledgerVars, imp, parseVars>>

----------------------------------------------------------------------------

LedgerInit ==
    /\ ledger = <<>>
    /\ nextId = 1
    /\ imp = [p \in Importers |-> Idle]

ParseInit ==
    /\ banks = NewRegistry.banks
    /\ bankMap = NewRegistry.bankMap
    /\ file = None
    /\ detection = None
    /\ result = None

ExtractInit == call = [op |-> "none"]

Init == LedgerInit /\ ParseInit /\ ExtractInit

Next ==
    \/ CreateTransaction
    \/ \E p \in Importers :
        \/ StartImport(p)
        \/ CheckReference(p)
        \/ CheckHash(p)
        \/ InsertCandidate(p)
        \/ StartUpdate(p)
        \/ FindForUpdate(p)
        \/ UpdateTransaction(p)
        \/ StartDelete(p)
        \/ DeleteTransaction(p)
        \/ Respond(p)

\* the ledger requests, interleaved at their await points
Spec == Init /\ [][Next]_vars

NextParse ==
    \/ RegisterBank
    \/ AutoParse
    \/ ParseWithBank

\* the registry: institutions are registered and files are parsed
SpecParse == Init /\ [][NextParse]_vars

NextExtract ==
    \/ ParseRowsCall
    \/ ParseBytesCall
    \/ FromExcelSerialCall
    \/ AmountParseStringCall
    \/ DateParseStringCall
    \/ DetectColumnsCall
    \/ GenerateHashCall
    \/ ReturnCall

\* the readers and the cell parsers, called on the rows, workbooks, serial
\* numbers and texts of the model
SpecExtract == Init /\ [][NextExtract]_vars

----------------------------------------------------------------------------
(* Properties of the deduplicating commit                                  *)

\* the logical identity of a transaction: user, account, date, normalized
\* absolute amount, trimmed lower-cased description, direction, normalized
\* reference
LogicalKey(user_id, account_id, transaction_date, amount, description, transaction_type, reference_number) ==
    [user |-> user_id, account |-> account_id, date |-> transaction_date,
     amount |-> DecimalNormalize(DecimalAbs(amount)),
     description |-> ToLowercase(Trim(description)),
     direction |-> transaction_type,
     reference |-> IF reference_number = None THEN None
                   ELSE Some(ToLowercase(Trim(reference_number[1])))]

RowKey(r) ==
    LogicalKey(r.user_id, r.account_id, r.transaction_date, r.amount, r.description,
               r.transaction_type, r.reference_number)

ParamKey(u, p) ==
    LogicalKey(u, p.account_id, p.transaction_date, p.amount, p.description,
               p.transaction_type, p.reference_number)

\* the row stores the fingerprint of its own fields: it was committed by a
\* bulk commit
StoresOwnHash(r) ==
    r.transaction_hash =
        Some(GenerateHash(r.user_id, r.account_id, r.transaction_date, r.amount, r.description,
                          r.transaction_type, r.reference_number))

Skipped(db, r, n) ==
    /\ r.db = db
    /\ ~r.err
    /\ r.created_count = 0
    /\ r.skipped_count = n

\* the logical identity of every candidate of every user, computed once
ParamKeys ==
    [x \in {y \in Users \X Params : y[2] \in ImportParams(y[1])} |-> ParamKey(x[1], x[2])] @@ <<>>

\* the user and the candidates <<u, p, q>> where p and q are one logical
\* transaction of user u
SameTransaction ==
    {z \in {<<x[1], x[2], y[2]>> : x \in DOMAIN ParamKeys, y \in DOMAIN ParamKeys} :
        /\ <<z[1], z[3]>> \in DOMAIN ParamKeys
        /\ ParamKeys[<<z[1], z[2]>>] = ParamKeys[<<z[1], z[3]>>]}

\* the candidates whose logical identity is key
Offering(key) == {x \in DOMAIN ParamKeys : ParamKeys[x] = key}

\* a bulk commit of <<p>> into the table that creates its row is followed by
\* a bulk commit of <<q>> that returns (0, 1) and adds no row
SecondSkipped(first, u, q) ==
    (~first.err /\ first.created_count = 1) =>
        /\ first.skipped_count = 0
        /\ Len(first.db) = Len(ledger) + 1
        /\ Skipped(first.db, BulkImportWithDeduplication(first.db, first.next, u, <<q>>), 1)

\* C1: deduplication idempotence.  In every reachable ledger state, when a
\* bulk commit of candidate p creates its row, a second bulk commit of the
\* same logical transaction q (same user, same normalized fields) adds no row
\* and returns created_count = 0, skipped_count = 1; likewise for every
\* candidate whose logical transaction a bulk commit has already stored.
C1_DeduplicationIdempotent ==
    /\ \A x \in SameTransaction :
           SecondSkipped(BulkImportWithDeduplication(ledger, nextId, x[1], <<x[2]>>), x[1], x[3])
    /\ \A i \in 1..Len(ledger) :
           StoresOwnHash(ledger[i]) =>
               \A x \in Offering(RowKey(ledger[i])) :
                   Skipped(ledger, BulkImportWithDeduplication(ledger, nextId, x[1], <<x[2]>>), 1)

\* C1 witness: the ledger holds the one row ever inserted, committed by a
\* bulk commit, without a reference, and a bulk commit of one candidate of
\* the same user has returned (0, 1): it offered that row's logical
\* transaction again and the hash lookup found the row.
C1_Witness ==
    \E p \in Importers :
        /\ Len(ledger) = 1
        /\ StoresOwnHash(ledger[1])
        /\ ledger[1].reference_number = None
        /\ imp[p].op = "bulk" /\ imp[p].pc = "ok"
        /\ nextId = 2
        /\ imp[p].user_id = ledger[1].user_id
        /\ imp[p].n = 1
        /\ imp[p].created_count = 0 /\ imp[p].skipped_count = 1

NormalizedReference(ref) == ToLowercase(Trim(ref))

\* C2: reference-number priority, as claimed.  Whenever the ledger holds a row
\* with a non-empty reference, a candidate of any user whose reference is the
\* same after trim and lowercase is skipped by a bulk commit: no row added,
\* skipped_count = 1, no error.
C2_ReferencePriority ==
    \A u \in Users : \A p \in ImportParams(u) :
        (/\ p.reference_number # None
         /\ NormalizedReference(p.reference_number[1]) # ""
         /\ \E i \in 1..Len(ledger) :
                /\ ledger[i].reference_number # None
                /\ NormalizedReference(ledger[i].reference_number[1]) =
                       NormalizedReference(p.reference_number[1]))
        => Skipped(ledger, BulkImportWithDeduplication(ledger, nextId, u, <<p>>), 1)

\* the step is the insert of a bulk commit: it appends a row that carries a
\* fingerprint (a manual create stores none)
BulkInsertStep ==
    /\ Len(ledger') = Len(ledger) + 1
    /\ ledger'[Len(ledger')].transaction_hash # None

\* C3, as claimed, for the rows of bulk commits alone: a bulk commit never
\* appends a row whose logical identity (user, account, date, normalized
\* absolute amount, trimmed lower-cased description, direction, normalized
\* reference) equals that of a row already in the ledger that an earlier bulk
\* commit or an earlier candidate of the same batch put there.
C3_NoDuplicateOfCommittedRow ==
    [][BulkInsertStep =>
        \A i \in 1..Len(ledger) :
            ledger'[i].transaction_hash # None =>
                RowKey(ledger'[i]) # RowKey(ledger'[Len(ledger')])]_vars

\* C4, as claimed: every bulk commit returns Ok((created_count,
\* skipped_count)) with created_count + skipped_count the length of the list;
\* a candidate that duplicates an existing row never makes it return an error.
C4_BulkNeverAborts ==
    \A p \in Importers :
        (imp[p].op = "bulk" /\ imp[p].pc \in {"ok", "err"}) =>
            /\ imp[p].pc = "ok"
            /\ imp[p].created_count + imp[p].skipped_count = imp[p].n

\* C5: under every interleaving of the lookups and inserts of concurrent
\* bulk commits, with the unique indexes enforced, no two rows of the ledger
\* that bulk commits stored (rows storing the fingerprint of their fields)
\* are the same logical transaction: of two inserts of one logical
\* transaction at most one takes effect.
C5_NoDoubleInsert ==
    \A i, j \in 1..Len(ledger) :
        (i # j /\ StoresOwnHash(ledger[i]) /\ StoresOwnHash(ledger[j]))
            => RowKey(ledger[i]) # RowKey(ledger[j])

\* C5 witness: both requests offered the same logical transaction for the
\* same user and both passed the lookups; one insert took effect, the other
\* was rejected by the unique index.
C5_Witness ==
    \E p, q \in Importers :
        /\ p # q
        /\ imp[p].op = "bulk" /\ imp[q].op = "bulk"
        /\ imp[p].pc = "ok" /\ imp[p].created_count = 1
        /\ imp[q].pc = "err" /\ imp[q].ids = {}
        /\ imp[p].user_id = imp[q].user_id
        /\ imp[p].n = 1 /\ imp[q].n = 1
        /\ Len(ledger) = 1 /\ nextId = 2
        /\ ledger[1].reference_number = None
        /\ imp[p].ids = {ledger[1].id}


----------------------------------------------------------------------------
(* Properties of detection and of the registry                             *)

FilenameMatchTable ==
    [x \in AllBanks \X FilePaths |-> MatchesFilename(x[1].info, x[2])] @@ <<>>
ContentMatchTable ==
    [x \in AllBanks \X Texts |-> MatchesContent(x[1].info, x[2])] @@ <<>>

FilenameMatches(bank, file_path) == FilenameMatchTable[<<bank, file_path>>]
ContentMatches(bank, content) == ContentMatchTable[<<bank, content>>]

Registered == {banks[k] : k \in 1..Len(banks)}

Remove(seq, k) == SubSeq(seq, 1, k - 1) \o SubSeq(seq, k + 1, Len(seq))

\* what auto_parse returns when it delegates to the parser of bank for format
Delegated(bank, format, data) ==
    LET parsed == ParsedBy(GetParser(bank, format)[1], data)
    IN  IF parsed.ok THEN [parsed EXCEPT !.bank_name = Some(bank.info.name)] ELSE parsed

\* C6, as claimed: after auto_parse of a file, if some registered
\* institution's parser for the file's format parses the bytes successfully,
\* the call returned a successful result.
C6_FailsOnlyIfEveryParserFails ==
    file # None =>
        LET f == file[1]
            format == ExtensionFormatOf(f.file_path)
        IN  (/\ format # None
             /\ \E bank \in MapValues(bankMap) :
                    /\ GetParser(bank, format[1]) # None
                    /\ ParsedBy(GetParser(bank, format[1])[1], f.data).ok)
            => result[1].ok

\* C7, as claimed, read with the two rules of the detector the spec gives: a
\* tie keeps the institution evaluated first, and an institution without a
\* parser for the format is skipped.  The content holds a keyword of a
\* registered institution X that has a parser for the detected format, the
\* extension is recognised, the filename matches no institution, no
\* institution scores higher than X and no institution registered before X
\* that has a parser for the format scores as high: detect returned X with
\* score 0.6 and auto_parse returned the outcome of X's parser, stamped with
\* X's name.
C7_KeywordSelectsInstitution ==
    file # None =>
        LET f == file[1]
            format == DetectFormatOf(f.file_path)
        IN  \A k \in 1..Len(banks) :
                LET X == banks[k]
                IN  (/\ ContentMatches(X, f.data.text)
                     /\ format.ok
                     /\ \A b \in Registered : ~FilenameMatches(b, f.file_path)
                     /\ \A b \in Registered :
                            ConfidenceOf(b, f.file_path, f.data.text)
                                <= ConfidenceOf(X, f.file_path, f.data.text)
                     /\ GetParser(X, format.format) # None
                     /\ \A j \in 1..(k - 1) :
                            GetParser(banks[j], format.format) # None =>
                                ConfidenceOf(banks[j], f.file_path, f.data.text)
                                    < ConfidenceOf(X, f.file_path, f.data.text))
                    => /\ detection[1].ok
                       /\ detection[1].detection.bank = X.info.code
                       /\ detection[1].detection.confidence = ContentConfidence
                       /\ result[1] = Delegated(X, format.format, f.data)

Formats == {"excel", "ofx", "qfx"}

\* C8: for every registered institution, path and text, detect_confidence is
\* 0.4 for a filename match plus 0.6 for a content match, so one of 0, 0.4,
\* 0.6, 1.0; and against the same text, a path that matches scores strictly
\* more than a path that does not, unless the score was already 1.0.
C8_ConfidenceValues ==
    \A bank \in Registered : \A p \in FilePaths, t \in Texts :
        LET c == ConfidenceOf(bank, p, t)
        IN  /\ c \in {0, FilenameConfidence, ContentConfidence, FullConfidence}
            /\ c >= 0 /\ c <= FullConfidence
            /\ (c = 0) = (~FilenameMatches(bank, p) /\ ~ContentMatches(bank, t))
            /\ (c = FilenameConfidence) = (FilenameMatches(bank, p) /\ ~ContentMatches(bank, t))
            /\ (c = ContentConfidence) = (~FilenameMatches(bank, p) /\ ContentMatches(bank, t))
            /\ (c = FullConfidence) = (FilenameMatches(bank, p) /\ ContentMatches(bank, t))
            /\ FilenameMatches(bank, p) =>
                   \A q \in FilePaths :
                       ~FilenameMatches(bank, q) =>
                           /\ c >= ConfidenceOf(bank, q, t)
                           /\ (c > ConfidenceOf(bank, q, t)
                                  \/ ConfidenceOf(bank, q, t) = FullConfidence)

\* C8 witness: a file whose name and text both match ICICI was scored 1.0,
\* and the same text under a name without hint scores 0.6.
C8_Witness ==
    /\ file # None
    /\ file[1].file_path = "icici_statement.xlsx"
    /\ file[1].data.text = "ICICI Bank"
    /\ detection[1].ok
    /\ detection[1].detection.bank = "icici"
    /\ detection[1].detection.confidence = FullConfidence
    /\ ConfidenceOf(ICICIBank, "statement.xlsx", "ICICI Bank") = ContentConfidence

\* C9: every result detect_from_content returns for the file, whatever the
\* format, and the result detect returned carry a confidence of at least 0.3
\* and at most 1.0; when no registered institution matches the path or the
\* text, detect_from_content returns none and detect returned an error.
C9_AcceptsFromThreshold ==
    file # None =>
        LET f == file[1]
            nothing_matches ==
                \A b \in Registered :
                    ~FilenameMatches(b, f.file_path) /\ ~ContentMatches(b, f.data.text)
        IN  /\ \A format \in Formats :
                   LET r == DetectFromContent(banks, f.data.text, f.file_path, format)
                   IN  /\ r # None =>
                              r[1].confidence >= AcceptThreshold /\ r[1].confidence <= FullConfidence
                       /\ nothing_matches => r = None
            /\ detection[1].ok =>
                   /\ detection[1].detection.confidence >= AcceptThreshold
                   /\ detection[1].detection.confidence <= FullConfidence
            /\ nothing_matches => ~detection[1].ok

\* C9 witness: a spreadsheet whose name alone matches ICICI was accepted with
\* the lowest score there is, 0.4.
C9_Witness ==
    /\ file # None
    /\ file[1].file_path = "icici_statement.xlsx"
    /\ file[1].data.text = ""
    /\ detection[1].ok
    /\ detection[1].detection.bank = "icici"
    /\ detection[1].detection.confidence = FilenameConfidence

\* C10, as claimed: a registered institution without a parser for the
\* file's detected format is not what detect returned, and
\* detect_from_content returns what it returns with that institution taken
\* off the list.
C10_ParserlessInstitutionSkipped ==
    (file # None /\ DetectFormatOf(file[1].file_path).ok) =>
        LET f == file[1]
            format == DetectFormatOf(f.file_path).format
        IN  \A k \in 1..Len(banks) :
                GetParser(banks[k], format) = None =>
                    /\ detection[1].ok => detection[1].detection.bank # banks[k].info.code
                    /\ DetectFromContent(banks, f.data.text, f.file_path, format)
                           = DetectFromContent(Remove(banks, k), f.data.text, f.file_path, format)

----------------------------------------------------------------------------
(* Properties of the choice among institutions                             *)

\* the positions of the institutions that hold a parser for the format
Candidates(format) == {k \in 1..Len(banks) : GetParser(banks[k], format) # None}

\* the highest score, over the given positions, for the file
TopScore(positions, f) ==
    Greatest({ConfidenceOf(banks[k], f.file_path, f.data.text) : k \in positions})

\* C11, as claimed: when the format of the file is recognised and the
\* highest score among the institutions that can be returned reaches the
\* threshold, detect returned the first registered of the institutions with
\* that highest score, and the confidence it reports is that score.
C11_FirstHighestReturned ==
    (file # None /\ DetectFormatOf(file[1].file_path).ok) =>
        LET f == file[1]
            format == DetectFormatOf(f.file_path).format
            top == TopScore(Candidates(format), f)
            first == Least({k \in Candidates(format) :
                               ConfidenceOf(banks[k], f.file_path, f.data.text) = top})
        IN  (Candidates(format) # {} /\ top >= AcceptThreshold) =>
                /\ detection[1].ok
                /\ detection[1].detection.bank = banks[first].info.code
                /\ detection[1].detection.confidence = top

\* the registered institutions whose parser for the format parses the bytes
Succeeding(format, data) ==
    {bank \in MapValues(bankMap) :
        /\ GetParser(bank, format) # None
        /\ ParsedBy(GetParser(bank, format)[1], data).ok}

\* C12, as claimed: when auto_parse went on to parse_by_extension, the call
\* fails with UnsupportedFormat exactly when the extension is unrecognised or
\* no registered institution's parser for the format parses the bytes;
\* otherwise it returns the result of one such parser, stamped with the
\* display name of its institution, whatever the other parsers answer.
C12_FallbackTriesEveryInstitution ==
    (file # None /\ FallsBack(banks, bankMap, file[1].file_path, file[1].data)) =>
        LET f == file[1]
            format == ExtensionFormatOf(f.file_path)
        IN  IF format = None \/ Succeeding(format[1], f.data) = {}
            THEN ~result[1].ok /\ result[1].kind = "UnsupportedFormat"
            ELSE /\ result[1].ok
                 /\ \E bank \in Succeeding(format[1], f.data) :
                        result[1] = Stamp(ParsedBy(GetParser(bank, format[1])[1], f.data), bank)

----------------------------------------------------------------------------
(* Properties of the format classification                                 *)

\* C13, as claimed: detect_format and the extension step of
\* parse_by_extension classify the path of the file alike: both fail, or
\* both give the same format; and the format is Excel for xls and xlsx in
\* any letter case, Ofx for ofx, Qfx for qfx, and a failure when the file
\* name has no extension or another one.
C13_FormatFromExtensionOnly ==
    file # None =>
        LET p == file[1].file_path
            ext == PathExtension(p)
            expected == IF ext = None THEN None ELSE FormatOfLowercase(ToLowercase(ext[1]))
        IN  /\ DetectFormatOf(p).ok = (expected # None)
            /\ DetectFormatOf(p).ok => DetectFormatOf(p).format = expected[1]
            /\ ExtensionFormatOf(p) = expected

----------------------------------------------------------------------------
(* Properties of the row extraction                                        *)

\* the result of the pending call is a successful ParseResult of a reader
Extracted == call.op \in {"parse_rows", "parse_bytes"} /\ call.out.ok

\* the transactions an outcome carries: none when the call gave no result
TransactionsOf(outcome) == IF outcome.ok THEN outcome.transactions ELSE <<>>

\* the transactions the pending call emitted
Emitted == TransactionsOf(call.out)

\* whether the cell at the index parses to a date
ValidDateAt(row, idx) == DateAt(row, idx) # None /\ DateAt(row, idx) # DaysOutOfBounds

\* C14: every transaction a reader emits, whatever the rows, has a
\* description that is not empty and carries no surrounding whitespace, and
\* an amount strictly above zero; a negative source cell gives the same
\* magnitude as the positive one.
C14_PositiveMagnitude ==
    Extracted =>
        \A i \in 1..Len(call.out.transactions) :
            /\ call.out.transactions[i].description # ""
            /\ Trim(call.out.transactions[i].description) = call.out.transactions[i].description
            /\ call.out.transactions[i].amount.m > 0
            /\ call.out.transactions[i].transaction_type \in {"Debit", "Credit"}

\* C14 witness: rows with a deposit written "(50.00)" and a withdrawal cell
\* of -7.25 were extracted as a Credit of 50.00 and a Debit of 7.25, and a
\* description written " Fuel " came out as "Fuel".
C14_Witness ==
    /\ call.op = "parse_rows"
    /\ call.out.ok
    /\ Len(call.out.transactions) = 2
    /\ \E i \in 1..2 :
           /\ call.out.transactions[i].amount = Dec(5000, 2)
           /\ call.out.transactions[i].transaction_type = "Credit"
    /\ \E i \in 1..2 :
           /\ call.out.transactions[i].amount = Dec(725, 2)
           /\ call.out.transactions[i].transaction_type = "Debit"

\* the 1-indexed rows of the sheet the loop of parse_rows gets to: those
\* from the start row on with no termination marker before them and, for
\* the IDFC First reader, no run of three empty rows before them
ReachedRows(kind, rows, start_row) ==
    {k \in (start_row + 1)..Len(rows) :
        /\ \A j \in (start_row + 1)..(k - 1) : IsRowEmpty(rows[j]) \/ ~Stops(kind, rows[j])
        /\ kind = "IdfcFirstExcelParser" =>
               \A j \in (start_row + MaxEmptyRun)..(k - 1) :
                   \E e \in 0..(MaxEmptyRun - 1) : ~IsRowEmpty(rows[j - e])}

\* the data rows among them: not empty, not a termination marker
DataRows(kind, rows, start_row) ==
    {k \in ReachedRows(kind, rows, start_row) : ~IsRowEmpty(rows[k]) /\ ~Stops(kind, rows[k])}

\* whether the cell at the index parses to an amount other than zero
NonZeroAt(row, idx) == AmountAt(row, idx) # None /\ AmountAt(row, idx)[1].m # 0

\* the magnitude of the cell at the index
MagnitudeAt(row, idx) == DecimalAbs(AmountAt(row, idx)[1])

\* the data rows with a valid date, a description and an amount
EmittingRows(kind, rows, start_row) ==
    {k \in DataRows(kind, rows, start_row) :
        /\ ValidDateAt(rows[k], Columns(kind).date)
        /\ UnwrapOrDefault(TextAt(rows[k], Columns(kind).description)) # ""
        /\ \/ NonZeroAt(rows[k], Columns(kind).debit)
           \/ NonZeroAt(rows[k], Columns(kind).credit)}

\* C15: parse_rows emits one transaction for each data row with a valid
\* date, a description and a non-zero amount, and none for any other row,
\* in the order of the rows; the transaction of a row is a Debit of |debit|
\* when the debit cell parses to a non-zero value, whatever the credit cell
\* holds, and otherwise a Credit of |credit|.
C15_OneTransactionPerRow ==
    call.op = "parse_rows" =>
        LET emitting == EmittingRows(call.kind, call.rows, call.start_row)
            columns == Columns(call.kind)
        IN  /\ Len(Emitted) = Cardinality(emitting)
            /\ \A k \in emitting :
                   LET tx == Emitted[Cardinality({j \in emitting : j <= k})]
                       row == call.rows[k]
                   IN  /\ tx.date = DateAt(row, columns.date)[1]
                       /\ tx.description = TextAt(row, columns.description)[1]
                       /\ IF NonZeroAt(row, columns.debit)
                          THEN /\ tx.transaction_type = "Debit"
                               /\ tx.amount = MagnitudeAt(row, columns.debit)
                          ELSE /\ tx.transaction_type = "Credit"
                               /\ tx.amount = MagnitudeAt(row, columns.credit)

\* the values a cheque number cell holds in place of a reference
Placeholders == {"", "0", "-"}

\* C16: for both readers the reference of an emitted transaction is the
\* trimmed text of the cheque number cell of its row, and absent instead
\* when that text is empty, "0" or "-": no emitted transaction carries a
\* placeholder as its reference.
C16_NoPlaceholderReference ==
    call.op = "parse_rows" =>
        \A i \in 1..Len(Emitted) :
            /\ Emitted[i].reference # None =>
                   Emitted[i].reference[1] \notin Placeholders
            /\ \E k \in EmittingRows(call.kind, call.rows, call.start_row) :
                   /\ i = Cardinality({j \in EmittingRows(call.kind, call.rows, call.start_row) : j <= k})
                   /\ Emitted[i].reference =
                          IF TextAt(call.rows[k], Columns(call.kind).reference) = None
                             \/ TextAt(call.rows[k], Columns(call.kind).reference)[1] \in Placeholders
                          THEN None
                          ELSE TextAt(call.rows[k], Columns(call.kind).reference)

\* whether some row of the sheet is a header row of the reader
HeaderFound(kind, rows) ==
    IF kind = "IciciExcelParser" THEN IciciHeaderRows(rows) # {} ELSE IdfcHeaderRows(rows) # {}

\* parse_rows succeeded and no row kept a later row from being extracted
RowsRecovered ==
    call.op = "parse_rows" =>
        /\ call.out.ok
        /\ Len(call.out.transactions) =
               Cardinality(EmittingRows(call.kind, call.rows, call.start_row))

\* C17 as stated: no malformed data row makes extraction fail or keeps a
\* later row from being extracted, and parse_bytes of a readable workbook
\* in which a header row is found returns a successful ParseResult.
C17_HeaderFoundSucceeds ==
    /\ RowsRecovered
    /\ (call.op = "parse_bytes" /\ call.workbook # None /\ HeaderFound(call.kind, call.workbook[1]))
           => call.out.ok

\* the dates of the transactions of a result
DatesOf(parse_result) ==
    {parse_result.transactions[i].date : i \in 1..Len(parse_result.transactions)}

\* whether the date is absent for no transactions and otherwise the bound of
\* the transactions' dates on the side given
IsBoundOf(date, parse_result, lower) ==
    IF parse_result.transactions = <<>> THEN date = None
    ELSE /\ date # None
         /\ date[1] \in DatesOf(parse_result)
         /\ \A d \in DatesOf(parse_result) :
                IF lower THEN ~DateBefore(d, date[1]) ELSE ~DateBefore(date[1], d)

\* the parsers of the registered institutions
RegisteredParsers ==
    {bank.parsers[k] : bank \in MapValues(bankMap), k \in {1}}

\* the successful results auto_parse and parse_with_bank returned, each with
\* the bytes it was made of
ReturnedResults ==
    (IF result # None /\ result[1].ok
     THEN {[out |-> result[1], data |-> file[1].data]} ELSE {})
    \cup (IF call.op = "parse_with_bank" /\ call.out.ok
          THEN {[out |-> call.out, data |-> call.data]} ELSE {})

\* whether the row of the sheet carries the date and the description of the
\* transaction in the columns of the reader
IsRowOf(kind, row, tx) ==
    /\ DateAt(row, Columns(kind).date) = Some(tx.date)
    /\ UnwrapOrDefault(TextAt(row, Columns(kind).description)) = tx.description

\* document order: the transactions can be assigned rows of the sheet that
\* carry them, a later transaction a later row
InDocumentOrder(kind, data, transactions) ==
    transactions # <<>> =>
        \E at \in [1..Len(transactions) -> 1..Len(data.rows[1])] :
            /\ \A i, j \in 1..Len(transactions) : i < j => at[i] < at[j]
            /\ \A i \in 1..Len(transactions) :
                   IsRowOf(kind, data.rows[1][at[i]], transactions[i])

\* C18: the start_date and the end_date of a ParseResult that auto_parse
\* (by delegation or by parse_by_extension) or parse_with_bank returns are
\* the least and the greatest date of its transactions, both absent exactly
\* when there are none, so start_date is not after end_date; the
\* transactions come in the order of the rows of the sheet that carry them;
\* and the result is what a registered parser made of the bytes, with its
\* transactions and both its dates, but for bank_name.
C18_DatesSpanTransactions ==
    \A r \in ReturnedResults :
        /\ IsBoundOf(r.out.start_date, r.out, TRUE)
        /\ IsBoundOf(r.out.end_date, r.out, FALSE)
        /\ (r.out.start_date = None) = (r.out.transactions = <<>>)
        /\ (r.out.end_date = None) = (r.out.transactions = <<>>)
        /\ r.out.start_date # None =>
               ~DateBefore(r.out.end_date[1], r.out.start_date[1])
        /\ \E parser \in RegisteredParsers :
               /\ ParseBytes(parser, r.data).ok
               /\ InDocumentOrder(parser.kind, r.data, r.out.transactions)
               /\ r.out = [ParseBytes(parser, r.data) EXCEPT !.bank_name = r.out.bank_name]

\* C18 witness: parse_with_bank of ICICI on a statement whose later
\* transaction comes first returned the stamped result: the transactions are
\* in the order of the rows, start_date is the date of the second and
\* end_date the date of the first.
C18_Witness ==
    /\ call.op = "parse_with_bank"
    /\ call.bank_code = "icici"
    /\ call.data.rows = IciciStatement
    /\ call.out.ok
    /\ call.out.bank_name = Some("ICICI Bank")
    /\ Len(call.out.transactions) = 2
    /\ call.out.transactions[1].date = <<2025, 1, 16>>
    /\ call.out.transactions[2].date = <<2024, 12, 31>>
    /\ call.out.start_date = Some(<<2024, 12, 31>>)
    /\ call.out.end_date = Some(<<2025, 1, 16>>)

\* the year counted from March, so that the leap day ends it
MarchYear(date) == IF date[2] <= 2 THEN date[1] - 1 ELSE date[1]

\* the day of the year counted from March 1st, from 0
MarchDay(date) ==
    (153 * (IF date[2] > 2 THEN date[2] - 3 ELSE date[2] + 9) + 2) \div 5 + date[3] - 1

\* the number of the day in the proleptic Gregorian calendar
DayNumber(date) ==
    365 * MarchYear(date) + MarchYear(date) \div 4 - MarchYear(date) \div 100
        + MarchYear(date) \div 400 + MarchDay(date)

\* the days from the first date to the second
DaysBetween(from, to) == DayNumber(to) - DayNumber(from)

\* C19: from_excel_serial maps a whole-number serial s >= 1 to the date s
\* days after 1899-12-30 when s < 60 and s - 1 days after it when s >= 60,
\* so that 45658 maps to 2024-12-31; a serial below 1 gives absent.
C19_SerialDaysAfterEpoch ==
    call.op = "from_excel_serial" =>
        /\ (call.serial.s >= 0 /\ call.serial.m < Pow10(call.serial.s)) => call.out = None
        /\ (call.serial.s <= 0 /\ call.serial.m >= 1) =>
               /\ call.out # None
               /\ call.out # DaysOutOfBounds
               /\ IsValidDate(call.out[1])
               /\ DaysBetween(<<1899, 12, 30>>, call.out[1]) =
                      IF Truncated(call.serial) < 60 THEN Truncated(call.serial)
                      ELSE Truncated(call.serial) - 1
        /\ call.serial = Dec(45658, 0) => call.out = Some(<<2024, 12, 31>>)

\* magnitudes as they are printed before a CR, Dr or DR suffix
Magnitudes ==
    {[text |-> "75", value |-> Dec(75, 0)], [text |-> "12.5", value |-> Dec(125, 1)],
     [text |-> "100.00", value |-> Dec(10000, 2)]}

\* whether the text is a decimal: an optional sign, then digits with at most
\* one '.' among them
IsDecimalText(s) ==
    \E sign \in {"", "-", "+"} : \E whole \in 1..Len(s) : \E fraction \in 0..Len(s) :
        /\ Len(s) = Len(sign) + whole + (IF fraction = 0 THEN 0 ELSE 1 + fraction)
        /\ SubSeq(s, 1, Len(sign)) = sign
        /\ \A i \in (Len(sign) + 1)..Len(s) :
               IF fraction # 0 /\ i = Len(sign) + whole + 1
               THEN CharAt(s, i) = "."
               ELSE CharAt(s, i) \in DigitSet

\* C20: parse_string returns 1234.56 for "1,234.56", 100.00 for "Rs.100.00"
\* and -50.00 for "(50.00)"; the magnitude for a magnitude followed by CR and
\* its negation for one followed by Dr or DR; absent for the empty text, for
\* "-" and for "0"; and absent for a text that clean rejects or leaves
\* something other than a decimal of.
C20_AmountNormalized ==
    call.op = "parse_string" =>
        /\ call.text = "1,234.56" => call.out = Some(Dec(123456, 2))
        /\ call.text = "Rs.100.00" => call.out = Some(Dec(10000, 2))
        /\ call.text = "(50.00)" => call.out = Some(Dec(-5000, 2))
        /\ call.text \in {"", "-", "0"} => call.out = None
        /\ \A v \in Magnitudes :
               /\ call.text \in {v.text \o "CR", v.text \o " CR"} => call.out = Some(v.value)
               /\ call.text \in {v.text \o "Dr", v.text \o "DR", v.text \o " DR"} =>
                      call.out = Some(Dec(-v.value.m, v.value.s))
        /\ (call.cleaned = None \/ ~IsDecimalText(call.cleaned[1])) => call.out = None
        /\ call.out # None => (call.out[1].m \in Int /\ call.out[1].s \in Nat)

\* C20 witness: parse_string was called with a magnitude followed by DR and
\* returned its negation.
C20_Witness ==
    /\ call.op = "parse_string"
    /\ call.text = "75 DR"
    /\ call.cleaned = Some("-75")
    /\ call.out = Some(Dec(-75, 0))

\* C21: parse_string returns, for a literal written in one of its formats
\* (day-month-year with '-', '/' or spaces, short or long month names, two-
\* and four-digit years, ISO, US month-day-year), the date the literal
\* denotes, and absent for a text in none of the formats.
C21_LiteralsParseToTheirDate ==
    call.op = "date_parse_string" =>
        /\ \A l \in DateLiterals : call.text = l.text => call.out = Some(l.date)
        /\ call.text \in NonDateTexts => call.out = None

\* the semantic roles of a column
Roles ==
    {"date", "posted_date", "description", "amount", "debit", "credit", "balance", "reference",
     "transaction_type"}

\* whether the lower-cased header holds a keyword of the role
HasKeywordOf(role, lower) ==
    CASE role = "date" ->
             Contains(lower, "date") /\ ~ContainsAny(lower, {"post", "value", "txn"})
      [] role = "posted_date" ->
             Contains(lower, "date") /\ ContainsAny(lower, {"post", "value", "txn"})
      [] role = "description" ->
             ContainsAny(lower, {"description", "particulars", "narration", "details", "remark"})
      [] role = "amount" -> Contains(lower, "amount")
      [] role = "debit" -> ContainsAny(lower, {"debit", "withdrawal", "withdraw"}) \/ lower = "dr"
      [] role = "credit" -> ContainsAny(lower, {"credit", "deposit"}) \/ lower = "cr"
      [] role = "balance" -> Contains(lower, "balance")
      [] role = "reference" ->
             ContainsAny(lower, {"ref", "cheque", "check", "transaction id", "txn id"})
      [] role = "transaction_type" -> ContainsAny(lower, {"type", "mode", "category"})

\* the indexes (from 0) of the headers that hold a keyword of the role
HeadersOf(role, headers) ==
    {i \in 0..(Len(headers) - 1) : HasKeywordOf(role, ToLowercase(headers[i + 1]))}

\* C22: detect_columns assigns to each role the index of the first header
\* whose lower-cased text holds a keyword of the role, and none when no
\* header does; the headers Date, Description, Debit, Credit, Balance give
\* date 0, description 1, debit 2, credit 3 and balance 4; and the mapping is
\* usable exactly when it has a date and one of amount, debit and credit.
C22_FirstHeaderOfEachRole ==
    call.op = "detect_columns" =>
        /\ \A role \in Roles :
               call.out[role] = IF HeadersOf(role, call.headers) = {} THEN None
                                ELSE Some(Least(HeadersOf(role, call.headers)))
        /\ call.headers = TestHeaders =>
               /\ call.out.date = Some(0)
               /\ call.out.description = Some(1)
               /\ call.out.debit = Some(2)
               /\ call.out.credit = Some(3)
               /\ call.out.balance = Some(4)
        /\ call.valid = (/\ call.out.date # None
                         /\ \E role \in {"amount", "debit", "credit"} : call.out[role] # None)

\* the magnitudes of two decimals are the same number
SameMagnitude(a, b) ==
    DecimalAbs(a).m * Pow10(b.s) = DecimalAbs(b).m * Pow10(a.s)

\* the trimmed texts are the same but for letter case
SameText(a, b) == ToLowercase(Trim(a)) = ToLowercase(Trim(b))

\* two records of arguments agree on the fields of the fingerprint
SameFingerprintFields(a, b) ==
    /\ a.user_id = b.user_id
    /\ a.account_id = b.account_id
    /\ a.transaction_date = b.transaction_date
    /\ SameMagnitude(a.amount, b.amount)
    /\ SameText(a.description, b.description)
    /\ a.transaction_type = b.transaction_type
    /\ (a.reference_number = None) = (b.reference_number = None)
    /\ a.reference_number # None => SameText(a.reference_number[1], b.reference_number[1])

\* C23: the hash generate_hash returned for its arguments is the hash of
\* any other arguments exactly when the two agree on user, account, date,
\* magnitude of the amount, description and reference up to letter case and
\* surrounding whitespace, and direction.
C23_HashOfNormalizedFields ==
    call.op = "generate_hash" =>
        \A other \in HashInputs :
            (call.out = GenerateHashOf(other)) = SameFingerprintFields(call.input, other)

\* C23 witness: generate_hash was called for " rent" of -100.0 with
\* reference " UPI1" and returned the hash of "Rent" of 100 with reference
\* "upi1".
C23_Witness ==
    /\ call.op = "generate_hash"
    /\ call.input.description = " rent"
    /\ call.input.amount = Dec(-1000, 1)
    /\ call.input.reference_number = Some(" UPI1")
    /\ call.out = GenerateHashOf([call.input EXCEPT !.description = "Rent", !.amount = Dec(100, 0),
                                                    !.reference_number = Some("upi1")])
    /\ call.out # GenerateHashOf([call.input EXCEPT !.reference_number = None])

\* the termination markers
TerminationMarkers ==
    {"legend", "note:", "total", "opening balance", "closing balance", "summary"}

\* the 1-indexed rows from the start row on that are not empty and whose
\* leading cell holds a termination marker
MarkerRows(rows, start_row) ==
    {k \in (start_row + 1)..Len(rows) :
        /\ ~IsRowEmpty(rows[k])
        /\ ContainsAny(ToLowercase(CellToString(rows[k][1])), TerminationMarkers)}

\* C24: parse_rows of either reader emits nothing from a row whose leading
\* cell holds a termination marker (legend, note:, total, opening balance,
\* closing balance, summary) nor from any row after it: the transactions are
\* those of the sheet cut before the first such row.
C24_NothingFromMarkerOn ==
    (call.op = "parse_rows" /\ MarkerRows(call.rows, call.start_row) # {}) =>
        Emitted =
            TransactionsOf(ParseRows(call.kind,
                                     SubSeq(call.rows, 1,
                                            Least(MarkerRows(call.rows, call.start_row)) - 1),
                                     call.start_row))

\* whether the row holds a valid date, a description and a non-zero amount
IsValidDataRow(kind, row) ==
    /\ ~IsRowEmpty(row)
    /\ ValidDateAt(row, Columns(kind).date)
    /\ UnwrapOrDefault(TextAt(row, Columns(kind).description)) # ""
    /\ (NonZeroAt(row, Columns(kind).debit) \/ NonZeroAt(row, Columns(kind).credit))

\* whether MaxEmptyRun consecutive empty rows lie between the start row and
\* the 1-indexed row k
EmptyRunBefore(rows, start_row, k) ==
    \E j \in (start_row + 1)..(k - MaxEmptyRun) :
        \A e \in 0..(MaxEmptyRun - 1) : IsRowEmpty(rows[j + e])

\* the valid data rows that no termination marker and, for the IDFC First
\* reader, no run of three empty rows precedes
RowsToExtract(kind, rows, start_row) ==
    {k \in (start_row + 1)..Len(rows) :
        /\ IsValidDataRow(kind, rows[k])
        /\ \A j \in MarkerRows(rows, start_row) : j > k
        /\ kind = "IdfcFirstExcelParser" => ~EmptyRunBefore(rows, start_row, k)}

\* C25: the IDFC First reader extracts a valid data row exactly when no run
\* of three or more consecutive empty rows and no termination marker
\* precedes it from the start row on, rows that are not empty ending a run
\* even when they are skipped as malformed; the ICICI reader extracts a
\* valid data row exactly when no termination marker precedes it, however
\* many empty rows do.
C25_ExtractedUnlessRunOrMarker ==
    call.op = "parse_rows" =>
        /\ Len(Emitted) =
               Cardinality(RowsToExtract(call.kind, call.rows, call.start_row))
        /\ \A k \in RowsToExtract(call.kind, call.rows, call.start_row) :
               Emitted[Cardinality({j \in RowsToExtract(call.kind, call.rows,
                                                                       call.start_row) : j <= k})].date
                   = DateAt(call.rows[k], Columns(call.kind).date)[1]

\* whether the sheet holds the row at the reader's header index and that row
\* holds the reader's header keywords
ExpectedHeaderThere(kind, rows) ==
    IF kind = "IciciExcelParser"
    THEN /\ Len(rows) > IciciHeaderRow
         /\ ContainsAny(RowText(rows[IciciHeaderRow + 1]), {"value date", "transaction"})
    ELSE /\ Len(rows) > IdfcHeaderRow
         /\ ContainsAny(RowText(rows[IdfcHeaderRow + 1]), {"transaction date", "particulars"})

\* the 0-indexed rows that hold the header keywords of the reader
HeaderRowsOf(kind, rows) ==
    IF kind = "IciciExcelParser" THEN IciciHeaderRows(rows) ELSE IdfcHeaderRows(rows)

\* C26: parse_bytes of either reader on a readable workbook whose row at the
\* expected header index lacks the header keywords, or which is too short to
\* hold that row, extracts from the row after the first row that holds the
\* header keywords; and it returns a ParseError only when no row holds them.
C26_HeaderSearchedWhenNotInPlace ==
    (call.op = "parse_bytes" /\ call.workbook # None) =>
        /\ (~ExpectedHeaderThere(call.kind, call.workbook[1])
            /\ HeaderRowsOf(call.kind, call.workbook[1]) # {}) =>
               call.out = ParseRows(call.kind, call.workbook[1],
                                    Least(HeaderRowsOf(call.kind, call.workbook[1])) + 1)
        /\ (~call.out.ok /\ call.out.kind = "ParseError") =>
               HeaderRowsOf(call.kind, call.workbook[1]) = {}

\* C27: the outcome of auto_parse of a file is the same in whatever order
\* the registry's map yields its institutions: the same error, or the same
\* transactions under the same institution name.
C27_SameOutcomeInEveryOrder ==
    (file # None /\ result # None) =>
        \A order \in Orders(MapValues(bankMap)) :
            AutoParseOf(banks, bankMap, order, file[1].file_path, file[1].data) = result[1]


\* C28, as claimed: after any sequence of bulk commits, manual creates,
\* updates and deletes, every ledger row that stores a fingerprint stores
\* generate_hash of its own current user, account, date, amount, description,
\* direction and reference.
C28_StoredHashOfCurrentFields ==
    \A i \in 1..Len(ledger) :
        ledger[i].transaction_hash # None =>
            ledger[i].transaction_hash =
                Some(GenerateHash(ledger[i].user_id, ledger[i].account_id,
                                  ledger[i].transaction_date, ledger[i].amount,
                                  ledger[i].description, ledger[i].transaction_type,
                                  ledger[i].reference_number))

\* C29, as claimed: a bulk commit that returns an error leaves the ledger as
\* it was before the call, so that no candidate of the failed batch remains
\* committed.
C29_FailedBulkLeavesLedger ==
    \A p \in Importers :
        (imp[p].op = "bulk" /\ imp[p].pc = "err") =>
            \A i \in 1..Len(ledger) : ledger[i].id \notin imp[p].ids

\* the place in the detector's list of the institution whose score became
\* the DetectionResult d: best_confidence only grows, so it is the first
\* institution that has d's confidence
Producer(d) ==
    Least({k \in 1..Len(banks) :
              ConfidenceOf(banks[k], file[1].file_path, file[1].data.text) = d.confidence})

\* C30, as claimed: after any sequence of register_bank calls the detector's
\* list and the registry map hold the same codes, and when detection returns
\* an institution code, get_bank of that code is the institution of the list
\* whose patterns produced the detection, and auto_parse returns what the
\* parser named in the DetectionResult makes of the file, stamped with that
\* institution's name.
C30_DetectedInstitutionResolved ==
    /\ {banks[k].info.code : k \in 1..Len(banks)} = DOMAIN bankMap
    /\ (file # None /\ detection # None /\ detection[1].ok) =>
           LET d == detection[1].detection
               bank == banks[Producer(d)]
           IN  /\ bank.info.code = d.bank
               /\ GetBank(bankMap, d.bank) = Some(bank)
               /\ ParserName(GetParser(bank, d.format)[1]) = d.suggested_parser
               /\ result = Some(ParsedAndStamped(ParsedBy(GetParser(bank, d.format)[1],
                                                          file[1].data), bank))

=============================================================================
